---- MODULE Spec2Model ----
(***************************************************************************)
(* A model of the Jyro language server's DocumentAnalyzer                  *)
(* (server/src/analyzer/documentAnalyzer.ts).  Text is modelled character  *)
(* by character: a line is a TLA+ string, every regular expression of the  *)
(* source is an operator that scans the string as the regex engine does,   *)
(* and all indices are the 0-based indices of the source.                  *)
(***************************************************************************)
EXTENDS Integers, Sequences, FiniteSets, TLC

VARIABLES text, lines, warnOnHostFunctions, diagnostics, symbols,
          blockStack, inLoop, afterTerminator, seenProps, lineIndex, pc, call,
          raised, history, maxCalls, maxNumberOfProblems, handler, sent, server, client, formatter, signatureHelp

vars == <<text, lines, warnOnHostFunctions, diagnostics, symbols,
          blockStack, inLoop, afterTerminator, seenProps, lineIndex, pc, call,
          raised, history, maxCalls, maxNumberOfProblems, handler, sent, server, client, formatter, signatureHelp>>

(***************************************************************************)
(* Bounds of the model.                                                    *)
(***************************************************************************)
MaxLines == 3
MaxNestLines == 4
MaxChars == 4
MaxCalls == 3
MaxRepeatLines == 2
MaxProblems == 3

\* The session of one document: the edits and the configuration changes the
\* client makes.
MaxEdits == 2
MaxChanges == 2

\* The formatter: the lines of a document.  Signature help: the offsets of
\* the request.
MaxFormatLines == 5
MaxOffset == 16

(***************************************************************************)
(* JavaScript string primitives, 0-based.                                  *)
(***************************************************************************)
MinOf(S) == CHOOSE x \in S : \A y \in S : x <= y

CharAt(s, i) == IF i >= 0 /\ i < Len(s) THEN SubSeq(s, i + 1, i + 1) ELSE ""

Substring(s, a, b) == SubSeq(s, a + 1, b)

SubstringFrom(s, a) == SubSeq(s, a + 1, Len(s))

CharsOf(s) == {SubSeq(s, i, i) : i \in 1..Len(s)}

LowerChars == CharsOf("abcdefghijklmnopqrstuvwxyz")
UpperChars == CharsOf("ABCDEFGHIJKLMNOPQRSTUVWXYZ")
DigitChars == CharsOf("0123456789")
WordChars == LowerChars \cup UpperChars \cup DigitChars \cup {"_"}
SpaceChars == {" ", "\t", "\n", "\r", "\f"}
LineTerminators == {"\n", "\r"}

IsWordChar(c) == c \in WordChars
IsSpace(c) == c \in SpaceChars
IsDigit(c) == c \in DigitChars
IsUpper(c) == c \in UpperChars
IsIdentStart(c) == c \in LowerChars \cup UpperChars \cup {"_"}
IsAlnum(c) == c \in LowerChars \cup UpperChars \cup DigitChars

ToLowerChar(c) ==
    IF c \in UpperChars
    THEN LET k == CHOOSE i \in 1..26 : SubSeq("ABCDEFGHIJKLMNOPQRSTUVWXYZ", i, i) = c
         IN SubSeq("abcdefghijklmnopqrstuvwxyz", k, k)
    ELSE c

RECURSIVE ToLowerCase(_)
ToLowerCase(s) ==
    IF Len(s) = 0 THEN ""
    ELSE ToLowerChar(CharAt(s, 0)) \o ToLowerCase(SubstringFrom(s, 1))

\* The regex assertion \b at index i: exactly one side is a word character.
IsWordBoundary(s, i) == IsWordChar(CharAt(s, i - 1)) # IsWordChar(CharAt(s, i))

StartsWithAt(s, p, i) ==
    i >= 0 /\ i + Len(p) <= Len(s) /\ Substring(s, i, i + Len(p)) = p

StartsWith(s, p) == StartsWithAt(s, p, 0)

\* s.indexOf(p, from): the first index >= from at which p occurs, else -1.
IndexOfFrom(s, p, from) ==
    LET start == IF from < 0 THEN 0 ELSE from
        hits == {i \in start..(Len(s) - Len(p)) : StartsWithAt(s, p, i)}
    IN IF hits = {} THEN -1 ELSE MinOf(hits)

IndexOf(s, p) == IndexOfFrom(s, p, 0)

Includes(s, p) == IndexOf(s, p) >= 0

RECURSIVE SkipSpaces(_, _)
SkipSpaces(s, i) == IF IsSpace(CharAt(s, i)) THEN SkipSpaces(s, i + 1) ELSE i

RECURSIVE SkipWord(_, _)
SkipWord(s, i) == IF IsWordChar(CharAt(s, i)) THEN SkipWord(s, i + 1) ELSE i

RECURSIVE SkipAlnum(_, _)
SkipAlnum(s, i) == IF IsAlnum(CharAt(s, i)) THEN SkipAlnum(s, i + 1) ELSE i

RECURSIVE SkipDigits(_, _)
SkipDigits(s, i) == IF IsDigit(CharAt(s, i)) THEN SkipDigits(s, i + 1) ELSE i

TrimStart(s) == SubstringFrom(s, SkipSpaces(s, 0))

RECURSIVE TrimEnd(_)
TrimEnd(s) ==
    IF Len(s) > 0 /\ IsSpace(CharAt(s, Len(s) - 1))
    THEN TrimEnd(Substring(s, 0, Len(s) - 1))
    ELSE s

Trim(s) == TrimEnd(TrimStart(s))

\* text.split('\n').map(line => line.replace(/\r$/, ''))
RECURSIVE SplitOn(_, _)
SplitOn(s, sep) ==
    LET k == IndexOf(s, sep)
    IN IF k < 0 THEN <<s>>
       ELSE <<Substring(s, 0, k)>> \o SplitOn(SubstringFrom(s, k + Len(sep)), sep)

StripTrailingCR(line) ==
    IF Len(line) > 0 /\ CharAt(line, Len(line) - 1) = "\r"
    THEN Substring(line, 0, Len(line) - 1)
    ELSE line

SplitLines(t) ==
    LET parts == SplitOn(t, "\n")
    IN [i \in 1..Len(parts) |-> StripTrailingCR(parts[i])]

\* s.replace(/#.*$/, ''): cut at the first '#' after which no line terminator
\* follows ('.' does not match one, '$' is the end of the input).
StripComment(s) ==
    LET hits == {i \in 0..(Len(s) - 1) :
                    /\ CharAt(s, i) = "#"
                    /\ \A j \in (i + 1)..(Len(s) - 1) : CharAt(s, j) \notin LineTerminators}
    IN IF hits = {} THEN s ELSE Substring(s, 0, MinOf(hits))

(***************************************************************************)
(* String-literal scanner.                                                 *)
(***************************************************************************)
\* Variant of BackslashCount: only the character just before the quote is looked at.
SingleBackslash(line, j) == IF j >= 0 /\ CharAt(line, j) = "\\" THEN 1 ELSE 0

\* The inner while loop: the number of consecutive backslashes ending at j.
RECURSIVE BackslashCount(_, _)
BackslashCount(line, j) ==
    IF j >= 0 /\ CharAt(line, j) = "\\" THEN 1 + BackslashCount(line, j - 1) ELSE 0

IsQuote(c) == c = "\"" \/ c = "'"

\* inString is "" for false, else the quote character that opened the literal.
RECURSIVE BalancedScan(_, _, _)
BalancedScan(line, i, inString) ==
    IF i >= Len(line) THEN inString
    ELSE LET char == CharAt(line, i)
         IN IF IsQuote(char) /\ BackslashCount(line, i - 1) % 2 = 0
            THEN IF inString = "" THEN BalancedScan(line, i + 1, char)
                 ELSE IF inString = char THEN BalancedScan(line, i + 1, "")
                 ELSE BalancedScan(line, i + 1, inString)
            ELSE BalancedScan(line, i + 1, inString)

hasBalancedStrings(line) == BalancedScan(line, 0, "") = ""

RECURSIVE RemoveScan(_, _, _, _, _)
RemoveScan(line, i, result, inString, stringStart) ==
    IF i >= Len(line)
    THEN IF inString # "" THEN result \o SubstringFrom(line, stringStart) ELSE result
    ELSE LET char == CharAt(line, i)
         IN IF IsQuote(char)
            THEN IF BackslashCount(line, i - 1) % 2 = 0
                 THEN IF inString = ""
                      THEN RemoveScan(line, i + 1, result, char, i)
                      ELSE IF inString = char
                      THEN RemoveScan(line, i + 1, result \o "\"\"", "", stringStart)
                      ELSE RemoveScan(line, i + 1, result, inString, stringStart)
                 ELSE RemoveScan(line, i + 1, result, inString, stringStart)
            ELSE IF inString = ""
                 THEN RemoveScan(line, i + 1, result \o char, inString, stringStart)
                 ELSE RemoveScan(line, i + 1, result, inString, stringStart)

removeStringLiterals(line) == RemoveScan(line, 0, "", "", -1)

(***************************************************************************)
(* Constant tables of the analyzer.                                        *)
(***************************************************************************)
keywords ==
    {"var", "if", "then", "else", "elseif", "end", "switch", "do", "case", "default",
     "while", "for", "foreach", "in", "to", "downto", "by", "return", "fail", "break",
     "continue", "true", "false", "null", "and", "or", "not", "is", "Data"}

\* Variant of typeKeywords: the list without 'array'.
typeKeywordsWithoutArray == {"number", "string", "boolean", "object"}

typeKeywords == {"number", "string", "boolean", "object", "array"}

\* getAllFunctionNames(): the names of STDLIB_FUNCTIONS.
functionNames ==
    {"ToUpper", "ToLower", "Trim", "Replace", "Contains", "StartsWith", "EndsWith",
     "Split", "Join", "Substring", "ToNumber", "PadLeft", "PadRight", "RegexTest",
     "RegexMatch", "RegexMatchAll", "RegexMatchDetail", "RandomString", "Length",
     "Append", "Prepend", "First", "Last", "IndexOf", "Reverse", "Slice",
     "Concatenate", "Distinct", "Sort", "Flatten", "FlattenOnce", "Range", "Skip",
     "Insert", "RemoveAt", "RemoveFirst", "RemoveLast", "RandomChoice", "SortByField",
     "GroupBy", "SelectMany", "Abs", "Floor", "Ceiling", "Min", "Max", "Power",
     "SquareRoot", "Log", "Sum", "Average", "Clamp", "Median", "Mode", "RandomInt",
     "Now", "Today", "ParseDate", "FormatDate", "DateAdd", "DateDiff", "DatePart",
     "WhereByField", "FindByField", "AnyByField", "AllByField", "CountIf", "Select",
     "Project", "Omit", "Map", "Where", "Reduce", "Each", "Find", "All", "Any",
     "SortBy", "TypeOf", "Equal", "NotEqual", "Coalesce", "ToString", "ToBoolean",
     "Keys", "Values", "HasProperty", "Merge", "Clone", "NewGuid", "Base64Encode",
     "Base64Decode", "FromJson", "ToJson", "Sleep", "ValidateRequired",
     "ValidateSchema"}

functionNamesLower == {ToLowerCase(f) : f \in functionNames}

DiagnosticSeverity == [Error |-> 1, Warning |-> 2, Information |-> 3, Hint |-> 4]

BlockBoundaryWords == {"end", "else", "elseif", "case", "default"}
TerminatorWords == {"return", "fail"}
BlockOpenWords == {"if", "while", "for", "foreach", "switch"}
LoopBlockTypes == {"while", "foreach", "for"}
LoopExitWords == {"break", "continue"}

(***************************************************************************)
(* Regular expressions of the analyzer, as scans of the string.            *)
(***************************************************************************)
NoMatch == [index |-> -1]

\* /\bw\b/ at index i, for a word w made of word characters.
WordAt(s, w, i) ==
    IsWordBoundary(s, i) /\ StartsWithAt(s, w, i) /\ IsWordBoundary(s, i + Len(w))

\* /\b(w1|w2|...)\b/: the leftmost match.  With \b on both sides at most one
\* alternative matches at an index, so the order of the alternatives is immaterial.
FirstWordMatch(s, words) ==
    LET hits == {i \in 0..(Len(s) - 1) : \E w \in words : WordAt(s, w, i)}
    IN IF hits = {} THEN NoMatch
       ELSE LET i == MinOf(hits)
            IN [index |-> i, word |-> CHOOSE w \in words : WordAt(s, w, i)]

ContainsWord(s, words) == FirstWordMatch(s, words).index >= 0

\* /^(w1|w2|...)\b/
StartsWithWord(s, words) ==
    \E w \in words : StartsWith(s, w) /\ IsWordBoundary(s, Len(w))

\* /^(end|else|elseif|case|default)\b/
IsBlockBoundary(masked) == StartsWithWord(masked, BlockBoundaryWords)

\* /^(return|fail)\b/
IsTerminator(masked) == StartsWithWord(masked, TerminatorWords)

\* /^\s*elseif\b/i
StartsWithElseif(trimmed) ==
    LET k == SkipSpaces(trimmed, 0)
    IN /\ k + 6 <= Len(trimmed)
       /\ ToLowerCase(Substring(trimmed, k, k + 6)) = "elseif"
       /\ IsWordBoundary(trimmed, k + 6)

\* -?\d+(?:\.\d+)? starting at i, followed by \b: the end of the match, or -1.
\* The engine tries the fraction first and gives it back when \b fails after it.
NumberEndBoundary(s, i) ==
    LET j0 == IF CharAt(s, i) = "-" THEN i + 1 ELSE i
        j1 == SkipDigits(s, j0)
        j2 == IF CharAt(s, j1) = "." THEN SkipDigits(s, j1 + 1) ELSE j1
    IN IF j1 = j0 THEN -1
       ELSE IF j2 > j1 + 1 /\ IsWordBoundary(s, j2) THEN j2
       ELSE IF IsWordBoundary(s, j1) THEN j1
       ELSE -1

\* -?\d+(?:\.\d+)? starting at i, followed by \s*\): the end of the number, or -1.
NumberEndParen(s, i) ==
    LET j0 == IF CharAt(s, i) = "-" THEN i + 1 ELSE i
        j1 == SkipDigits(s, j0)
        j2 == IF CharAt(s, j1) = "." THEN SkipDigits(s, j1 + 1) ELSE j1
    IN IF j1 = j0 THEN -1
       ELSE IF j2 > j1 + 1 /\ CharAt(s, SkipSpaces(s, j2)) = ")" THEN j2
       ELSE IF CharAt(s, SkipSpaces(s, j1)) = ")" THEN j1
       ELSE -1

\* /\bby\s+(-?\d+(?:\.\d+)?)\b/: the leftmost match; all = match[0], value = match[1].
StepMatchAt(s, i) ==
    /\ IsWordBoundary(s, i)
    /\ StartsWithAt(s, "by", i)
    /\ SkipSpaces(s, i + 2) > i + 2
    /\ NumberEndBoundary(s, SkipSpaces(s, i + 2)) >= 0

StepMatch(s) ==
    LET hits == {i \in 0..(Len(s) - 1) : StepMatchAt(s, i)}
    IN IF hits = {} THEN NoMatch
       ELSE LET i == MinOf(hits)
                k == SkipSpaces(s, i + 2)
                e == NumberEndBoundary(s, k)
            IN [index |-> i, all |-> Substring(s, i, e), value |-> Substring(s, k, e)]

\* /\bSleep\s*\(\s*(-?\d+(?:\.\d+)?)\s*\)/
SleepMatchAt(s, i) ==
    /\ IsWordBoundary(s, i)
    /\ StartsWithAt(s, "Sleep", i)
    /\ CharAt(s, SkipSpaces(s, i + 5)) = "("
    /\ NumberEndParen(s, SkipSpaces(s, SkipSpaces(s, i + 5) + 1)) >= 0

SleepMatch(s) ==
    LET hits == {i \in 0..(Len(s) - 1) : SleepMatchAt(s, i)}
    IN IF hits = {} THEN NoMatch
       ELSE LET i == MinOf(hits)
                k == SkipSpaces(s, SkipSpaces(s, i + 5) + 1)
                e == NumberEndParen(s, k)
            IN [index |-> i, all |-> Substring(s, i, SkipSpaces(s, e) + 1),
                value |-> Substring(s, k, e)]

\* parseFloat of a literal -?\d+(\.\d+)?, scaled by 10^(number of fraction digits):
\* the sign and the zero of the value are those of the scaled integer.
DigitValue(c) == CHOOSE d \in 0..9 : SubSeq("0123456789", d + 1, d + 1) = c

RECURSIVE DigitsValue(_, _)
DigitsValue(s, acc) ==
    IF Len(s) = 0 THEN acc
    ELSE IF CharAt(s, 0) = "." THEN DigitsValue(SubstringFrom(s, 1), acc)
    ELSE DigitsValue(SubstringFrom(s, 1), 10 * acc + DigitValue(CharAt(s, 0)))

parseFloatScaled(lit) ==
    IF CharAt(lit, 0) = "-" THEN 0 - DigitsValue(SubstringFrom(lit, 1), 0)
    ELSE DigitsValue(lit, 0)

\* /^\s*var\s+/
StartsWithVar(trimmed) ==
    LET k == SkipSpaces(trimmed, 0)
    IN StartsWithAt(trimmed, "var", k) /\ IsSpace(CharAt(trimmed, k + 3))

\* /^var\s+\w+\s*:\s*(\w+)/: type = match[1].
TypeAnnotMatch(trimmed) ==
    LET a == SkipSpaces(trimmed, 3)
        b == SkipWord(trimmed, a)
        c == SkipSpaces(trimmed, b)
        d == SkipSpaces(trimmed, c + 1)
        e == SkipWord(trimmed, d)
    IN IF /\ StartsWith(trimmed, "var") /\ a > 3 /\ b > a
          /\ CharAt(trimmed, c) = ":" /\ e > d
       THEN [index |-> 0, type |-> Substring(trimmed, d, e)]
       ELSE NoMatch

\* /\b([A-Z][a-zA-Z0-9]*)\s*\(/g: the first match at or after lastIndex.
FuncCallMatchAt(s, i) ==
    /\ IsWordBoundary(s, i)
    /\ IsUpper(CharAt(s, i))
    /\ CharAt(s, SkipSpaces(s, SkipAlnum(s, i + 1))) = "("

FuncCallMatch(s, lastIndex) ==
    LET hits == {i \in lastIndex..(Len(s) - 1) : FuncCallMatchAt(s, i)}
    IN IF hits = {} THEN NoMatch
       ELSE LET i == MinOf(hits)
                j == SkipAlnum(s, i + 1)
            IN [index |-> i, name |-> Substring(s, i, j),
                lastIndex |-> SkipSpaces(s, j) + 1]

(***************************************************************************)
(* checkSyntax: the rules applied to one line, in the order of the source. *)
(* st is the record of checkSyntax's locals and the diagnostics list:      *)
(* [blockStack, inLoop, afterTerminator, diagnostics].                     *)
(***************************************************************************)
addDiagnostic(diags, startLine, startChar, endLine, endChar, message, severity) ==
    Append(diags,
           [severity |-> severity,
            range |-> [start |-> [line |-> startLine, character |-> startChar],
                       end |-> [line |-> endLine, character |-> endChar]],
            message |-> message,
            source |-> "jyro"])

\* trimmed.startsWith('#') || trimmed.length === 0
IsSkippedLine(line) == StartsWith(Trim(line), "#") \/ Len(Trim(line)) = 0

WithoutComments(line) == StripComment(Trim(line))

TrimmedWithoutStrings(line) == removeStringLiterals(WithoutComments(line))

\* Variant of UnreachableUpdate: the flag is cleared once a line has been reported.
UnreachableReportedOnce(st, idx, line, isBlockBoundary, isTerminator) ==
    [st EXCEPT
        !.diagnostics =
            IF st.afterTerminator /\ ~isBlockBoundary
            THEN addDiagnostic(st.diagnostics, idx, 0, idx, Len(Trim(line)),
                               "Unreachable code detected", DiagnosticSeverity.Warning)
            ELSE st.diagnostics,
        !.afterTerminator =
            IF isBlockBoundary \/ st.afterTerminator THEN FALSE
            ELSE IF isTerminator THEN TRUE
            ELSE st.afterTerminator]

\* Variant of UnreachableUpdate: a boundary line is exempt but leaves the flag set.
UnreachableBoundaryKeepsFlag(st, idx, line, isBlockBoundary, isTerminator) ==
    [st EXCEPT
        !.diagnostics =
            IF st.afterTerminator /\ ~isBlockBoundary
            THEN addDiagnostic(st.diagnostics, idx, 0, idx, Len(Trim(line)),
                               "Unreachable code detected", DiagnosticSeverity.Warning)
            ELSE st.diagnostics,
        !.afterTerminator =
            IF isBlockBoundary THEN st.afterTerminator
            ELSE IF isTerminator THEN TRUE
            ELSE st.afterTerminator]

\* isBlockBoundary is the test of the masked line against the boundary words.
UnreachableUpdate(st, idx, line, isBlockBoundary, isTerminator) ==
    [st EXCEPT
        !.diagnostics =
            IF st.afterTerminator /\ ~isBlockBoundary
            THEN addDiagnostic(st.diagnostics, idx, 0, idx, Len(Trim(line)),
                               "Unreachable code detected", DiagnosticSeverity.Warning)
            ELSE st.diagnostics,
        !.afterTerminator =
            IF isBlockBoundary THEN FALSE
            ELSE IF isTerminator THEN TRUE
            ELSE st.afterTerminator]

UnreachableRule(st, idx, line) ==
    UnreachableUpdate(st, idx, line,
                      IsBlockBoundary(TrimmedWithoutStrings(line)),
                      IsTerminator(TrimmedWithoutStrings(line)))

UnclosedStringRule(st, idx, line) ==
    IF ~hasBalancedStrings(line)
    THEN [st EXCEPT !.diagnostics =
              addDiagnostic(st.diagnostics, idx, 0, idx, Len(line),
                            "Unclosed string literal", DiagnosticSeverity.Error)]
    ELSE st

\* Variant of BlockOpenPush: the stack entry records the 1-based line number.
BlockOpenPushOneBased(st, idx, line, blockMatch) ==
    IF ~StartsWithElseif(Trim(line)) /\ blockMatch.index >= 0
    THEN [st EXCEPT !.blockStack = Append(st.blockStack,
                                          [type |-> blockMatch.word, line |-> idx + 1]),
                    !.inLoop = IF blockMatch.word \in LoopBlockTypes
                               THEN st.inLoop + 1 ELSE st.inLoop]
    ELSE st

\* Variant of BlockOpenPush: foreach is not counted as a loop.
BlockOpenPushForeachUncounted(st, idx, line, blockMatch) ==
    IF ~StartsWithElseif(Trim(line)) /\ blockMatch.index >= 0
    THEN [st EXCEPT !.blockStack = Append(st.blockStack,
                                          [type |-> blockMatch.word, line |-> idx]),
                    !.inLoop = IF blockMatch.word \in LoopBlockTypes \ {"foreach"}
                               THEN st.inLoop + 1 ELSE st.inLoop]
    ELSE st

\* Variant of BlockOpenPush: a line that starts with elseif is treated as any other.
BlockOpenPushOnElseif(st, idx, line, blockMatch) ==
    IF blockMatch.index >= 0
    THEN [st EXCEPT !.blockStack = Append(st.blockStack,
                                          [type |-> blockMatch.word, line |-> idx]),
                    !.inLoop = IF blockMatch.word \in LoopBlockTypes
                               THEN st.inLoop + 1 ELSE st.inLoop]
    ELSE st

\* blockMatch is the match of /\b(if|while|for|foreach|switch)\b/ on the masked line.
BlockOpenPush(st, idx, line, blockMatch) ==
    IF ~StartsWithElseif(Trim(line)) /\ blockMatch.index >= 0
    THEN [st EXCEPT !.blockStack = Append(st.blockStack,
                                          [type |-> blockMatch.word, line |-> idx]),
                    !.inLoop = IF blockMatch.word \in LoopBlockTypes
                               THEN st.inLoop + 1 ELSE st.inLoop]
    ELSE st

BlockOpenRule(st, idx, line) ==
    BlockOpenPush(st, idx, line, FirstWordMatch(TrimmedWithoutStrings(line), BlockOpenWords))

\* Variant of BlockEndRule: the popped block leaves the loop counter as it was.
BlockEndKeepsLoopCount(st, idx, line) ==
    IF ContainsWord(TrimmedWithoutStrings(line), {"end"})
    THEN IF Len(st.blockStack) = 0
         THEN [st EXCEPT !.diagnostics =
                   addDiagnostic(st.diagnostics, idx, 0, idx, Len(Trim(line)),
                                 "Unexpected \"end\" without matching block start",
                                 DiagnosticSeverity.Error)]
         ELSE [st EXCEPT !.blockStack = SubSeq(st.blockStack, 1, Len(st.blockStack) - 1)]
    ELSE st

\* Variant of BlockEndRule: an end on an empty stack also decrements the loop counter.
BlockEndUnderflows(st, idx, line) ==
    IF ContainsWord(TrimmedWithoutStrings(line), {"end"})
    THEN IF Len(st.blockStack) = 0
         THEN [st EXCEPT !.diagnostics =
                   addDiagnostic(st.diagnostics, idx, 0, idx, Len(Trim(line)),
                                 "Unexpected \"end\" without matching block start",
                                 DiagnosticSeverity.Error),
                         !.inLoop = st.inLoop - 1]
         ELSE LET block == st.blockStack[Len(st.blockStack)]
              IN [st EXCEPT !.blockStack = SubSeq(st.blockStack, 1, Len(st.blockStack) - 1),
                            !.inLoop = IF block.type \in LoopBlockTypes
                                       THEN st.inLoop - 1 ELSE st.inLoop]
    ELSE st

BlockEndRule(st, idx, line) ==
    IF ContainsWord(TrimmedWithoutStrings(line), {"end"})
    THEN IF Len(st.blockStack) = 0
         THEN [st EXCEPT !.diagnostics =
                   addDiagnostic(st.diagnostics, idx, 0, idx, Len(Trim(line)),
                                 "Unexpected \"end\" without matching block start",
                                 DiagnosticSeverity.Error)]
         ELSE LET block == st.blockStack[Len(st.blockStack)]
              IN [st EXCEPT !.blockStack = SubSeq(st.blockStack, 1, Len(st.blockStack) - 1),
                            !.inLoop = IF block.type \in LoopBlockTypes
                                       THEN st.inLoop - 1 ELSE st.inLoop]
    ELSE st

\* Variant of LoopExitRule: any open block counts as a loop.
LoopExitAnyBlock(st, idx, line) ==
    IF ContainsWord(TrimmedWithoutStrings(line), LoopExitWords) /\ Len(st.blockStack) = 0
    THEN [st EXCEPT !.diagnostics =
              addDiagnostic(st.diagnostics, idx, 0, idx, Len(Trim(line)),
                            "\"" \o (IF Includes(TrimmedWithoutStrings(line), "break")
                                     THEN "break" ELSE "continue")
                                 \o "\" can only be used inside loops",
                            DiagnosticSeverity.Error)]
    ELSE st

LoopExitRule(st, idx, line) ==
    IF ContainsWord(TrimmedWithoutStrings(line), LoopExitWords) /\ st.inLoop = 0
    THEN [st EXCEPT !.diagnostics =
              addDiagnostic(st.diagnostics, idx, 0, idx, Len(Trim(line)),
                            "\"" \o (IF Includes(TrimmedWithoutStrings(line), "break")
                                     THEN "break" ELSE "continue")
                                 \o "\" can only be used inside loops",
                            DiagnosticSeverity.Error)]
    ELSE st

\* valueStart = stepPos + stepMatch[0].indexOf(stepMatch[1])
StepReport(st, idx, stepMatch, valueStart) ==
    [st EXCEPT !.diagnostics =
         addDiagnostic(st.diagnostics, idx, valueStart, idx,
                       valueStart + Len(stepMatch.value),
                       "For loop step must be a positive number",
                       DiagnosticSeverity.Error)]

\* Variant of StepCheck: a step of zero is accepted.
StepCheckNegativeOnly(st, idx, line, stepMatch) ==
    IF stepMatch.index >= 0 /\ parseFloatScaled(stepMatch.value) < 0
    THEN StepReport(st, idx, stepMatch,
                    IndexOf(line, stepMatch.all) + IndexOf(stepMatch.all, stepMatch.value))
    ELSE st

StepCheck(st, idx, line, stepMatch) ==
    IF stepMatch.index >= 0 /\ parseFloatScaled(stepMatch.value) <= 0
    THEN StepReport(st, idx, stepMatch,
                    IndexOf(line, stepMatch.all) + IndexOf(stepMatch.all, stepMatch.value))
    ELSE st

StepRule(st, idx, line) ==
    StepCheck(st, idx, line, StepMatch(TrimmedWithoutStrings(line)))

\* valueStart = sleepPos + sleepMatch[0].indexOf(sleepMatch[1])
SleepReport(st, idx, sleepMatch, valueStart) ==
    [st EXCEPT !.diagnostics =
         addDiagnostic(st.diagnostics, idx, valueStart, idx,
                       valueStart + Len(sleepMatch.value),
                       "Sleep() requires a positive integer millisecond value",
                       DiagnosticSeverity.Error)]

\* Variant of SleepCheck: a pause of zero is accepted.
SleepCheckNegativeOnly(st, idx, line, sleepMatch) ==
    IF sleepMatch.index >= 0 /\ parseFloatScaled(sleepMatch.value) < 0
    THEN SleepReport(st, idx, sleepMatch,
                     IndexOf(line, sleepMatch.all) + IndexOf(sleepMatch.all, sleepMatch.value))
    ELSE st

SleepCheck(st, idx, line, sleepMatch) ==
    IF sleepMatch.index >= 0 /\ parseFloatScaled(sleepMatch.value) <= 0
    THEN SleepReport(st, idx, sleepMatch,
                     IndexOf(line, sleepMatch.all) + IndexOf(sleepMatch.all, sleepMatch.value))
    ELSE st

SleepRule(st, idx, line) ==
    SleepCheck(st, idx, line, SleepMatch(TrimmedWithoutStrings(line)))

\* pos = line.indexOf(type)
TypeAnnotationReport(st, idx, type, pos) ==
    [st EXCEPT !.diagnostics =
         addDiagnostic(st.diagnostics, idx, pos, idx, pos + Len(type),
                       "Unknown type \"" \o type
                           \o "\". Expected: number, string, boolean, object, or array",
                       DiagnosticSeverity.Error)]

TypeAnnotationCheck(st, idx, line, typeAnnotMatch) ==
    IF /\ StartsWithVar(Trim(line))
       /\ typeAnnotMatch.index >= 0
       /\ typeAnnotMatch.type \notin typeKeywords
    THEN TypeAnnotationReport(st, idx, typeAnnotMatch.type,
                              IndexOf(line, typeAnnotMatch.type))
    ELSE st

TypeAnnotationRule(st, idx, line) ==
    TypeAnnotationCheck(st, idx, line, TypeAnnotMatch(Trim(line)))

\* Variant of IsHostFunction: the function registry is not consulted.
IsNotKeyword(funcName) == funcName \notin keywords

\* Whether the advisory is raised for a matched call name.
IsHostFunction(funcName) == funcName \notin keywords /\ funcName \notin functionNames

\* Variant of HostFunctionReport: the advisory is raised as a Warning.
HostFunctionReportAsWarning(diags, idx, name, pos) ==
    addDiagnostic(diags, idx, pos, idx, pos + Len(name),
                  "Referenced function \"" \o name
                      \o "\" will need to be made available at runtime",
                  DiagnosticSeverity.Warning)

\* pos = leadingWhitespace + funcMatch.index
HostFunctionReport(diags, idx, name, pos) ==
    addDiagnostic(diags, idx, pos, idx, pos + Len(name),
                  "Referenced function \"" \o name
                      \o "\" will need to be made available at runtime",
                  DiagnosticSeverity.Information)

\* The while loop over the matches of the masked line, from lastIndex on.
RECURSIVE HostFunctionScan(_, _, _, _, _)
RECURSIVE HostFunctionStep(_, _, _, _, _)
HostFunctionStep(diags, idx, line, masked, funcMatch) ==
    IF funcMatch.index < 0 THEN diags
    ELSE HostFunctionScan(
             IF IsHostFunction(funcMatch.name)
             THEN HostFunctionReport(diags, idx, funcMatch.name,
                                     (Len(line) - Len(TrimStart(line))) + funcMatch.index)
             ELSE diags,
             idx, line, masked, funcMatch.lastIndex)

HostFunctionScan(diags, idx, line, masked, lastIndex) ==
    HostFunctionStep(diags, idx, line, masked, FuncCallMatch(masked, lastIndex))

HostFunctionRule(st, idx, line, warn) ==
    IF warn
    THEN [st EXCEPT !.diagnostics =
              HostFunctionScan(st.diagnostics, idx, line, TrimmedWithoutStrings(line), 0)]
    ELSE st

\* The body of the forEach callback of checkSyntax for one line.
CheckSyntaxOnLine(st, idx, line, warn) ==
    IF IsSkippedLine(line) THEN st
    ELSE HostFunctionRule(
         TypeAnnotationRule(
         SleepRule(
         StepRule(
         LoopExitRule(
         BlockEndRule(
         BlockOpenRule(
         UnclosedStringRule(
         UnreachableRule(st, idx, line),
         idx, line), idx, line), idx, line), idx, line), idx, line), idx, line),
         idx, line), idx, line, warn)

\* After the loop: the unclosed-block check.  this.lines[unclosed.line] is read
\* without a guard; lineCount is this.lines.length.
UnclosedBlockThrows(stack, lineCount) ==
    Len(stack) > 0 /\ ~(stack[Len(stack)].line >= 0 /\ stack[Len(stack)].line < lineCount)

\* Variant of UnclosedBlockRule: the outermost open block is the one reported.
UnclosedBlockOutermost(diags, stack, ls) ==
    IF Len(stack) > 0 /\ ~UnclosedBlockThrows(stack, Len(ls))
    THEN LET unclosed == stack[1]
         IN addDiagnostic(diags, unclosed.line, 0, unclosed.line,
                          Len(ls[unclosed.line + 1]),
                          "Unclosed \"" \o unclosed.type \o "\" block - missing \"end\"",
                          DiagnosticSeverity.Error)
    ELSE diags

UnclosedBlockRule(diags, stack, ls) ==
    IF Len(stack) > 0 /\ ~UnclosedBlockThrows(stack, Len(ls))
    THEN LET unclosed == stack[Len(stack)]
         IN addDiagnostic(diags, unclosed.line, 0, unclosed.line,
                          Len(ls[unclosed.line + 1]),
                          "Unclosed \"" \o unclosed.type \o "\" block - missing \"end\"",
                          DiagnosticSeverity.Error)
    ELSE diags

(***************************************************************************)
(* extractSymbols.  A symbol is [name, type, line, character]; type is ""  *)
(* where the source leaves it undefined.  es is the record of the pass:    *)
(* [symbols, seenProps].                                                   *)
(***************************************************************************)
Symbol(name, type, line, character) ==
    [name |-> name, type |-> type, line |-> line, character |-> character]

\* /\bvar\s+(\w+)(?:\s*:\s*(\w+))?/g: the first match at or after lastIndex.
VarDeclMatchAt(s, i) ==
    /\ IsWordBoundary(s, i)
    /\ StartsWithAt(s, "var", i)
    /\ SkipSpaces(s, i + 3) > i + 3
    /\ SkipWord(s, SkipSpaces(s, i + 3)) > SkipSpaces(s, i + 3)

VarDeclMatch(s, lastIndex) ==
    LET hits == {i \in lastIndex..(Len(s) - 1) : VarDeclMatchAt(s, i)}
    IN IF hits = {} THEN NoMatch
       ELSE LET i == MinOf(hits)
                a == SkipSpaces(s, i + 3)
                b == SkipWord(s, a)
                c == SkipSpaces(s, b)
                d == SkipSpaces(s, c + 1)
                e == SkipWord(s, d)
                typed == CharAt(s, c) = ":" /\ e > d
            IN [index |-> i, name |-> Substring(s, a, b),
                type |-> IF typed THEN Substring(s, d, e) ELSE "",
                lastIndex |-> IF typed THEN e ELSE b]

\* The while loop over the matches of the trimmed line, from lastIndex on.
RECURSIVE VarDeclScan(_, _, _, _)
RECURSIVE VarDeclStep(_, _, _, _)
VarDeclStep(syms, idx, line, varMatch) ==
    IF varMatch.index < 0 THEN syms
    ELSE VarDeclScan(
             Append(syms, Symbol(varMatch.name, varMatch.type, idx,
                                 IndexOfFrom(line, varMatch.name, varMatch.index))),
             idx, line, varMatch.lastIndex)

VarDeclScan(syms, idx, line, lastIndex) ==
    VarDeclStep(syms, idx, line, VarDeclMatch(Trim(line), lastIndex))

\* /\b<kw>\s+(\w+)\s+in\b/ for kw = foreach, for: the leftmost match.
IteratorMatchAt(s, kw, i) ==
    LET a == SkipSpaces(s, i + Len(kw))
        b == SkipWord(s, a)
        c == SkipSpaces(s, b)
    IN /\ IsWordBoundary(s, i)
       /\ StartsWithAt(s, kw, i)
       /\ a > i + Len(kw) /\ b > a /\ c > b
       /\ StartsWithAt(s, "in", c)
       /\ IsWordBoundary(s, c + 2)

IteratorMatch(s, kw) ==
    LET hits == {i \in 0..(Len(s) - 1) : IteratorMatchAt(s, kw, i)}
    IN IF hits = {} THEN NoMatch
       ELSE LET i == MinOf(hits)
                a == SkipSpaces(s, i + Len(kw))
            IN [index |-> i, name |-> Substring(s, a, SkipWord(s, a))]

\* Variant of ForeachSymbol: the column is that of the trimmed line.
ForeachSymbolInTrimmed(syms, idx, line, foreachMatch) ==
    IF foreachMatch.index < 0 THEN syms
    ELSE Append(syms, Symbol(foreachMatch.name, "iterator", idx,
                             IndexOf(Trim(line), foreachMatch.name)))

ForeachSymbol(syms, idx, line, foreachMatch) ==
    IF foreachMatch.index < 0 THEN syms
    ELSE Append(syms, Symbol(foreachMatch.name, "iterator", idx,
                             IndexOf(line, foreachMatch.name)))

ForeachSymbols(syms, idx, line) ==
    ForeachSymbol(syms, idx, line, IteratorMatch(Trim(line), "foreach"))

ForSymbol(syms, idx, line, forMatch) ==
    IF forMatch.index < 0 THEN syms
    ELSE Append(syms, Symbol(forMatch.name, "iterator", idx,
                             IndexOfFrom(line, forMatch.name, forMatch.index)))

ForSymbols(syms, idx, line) ==
    ForSymbol(syms, idx, line, IteratorMatch(Trim(line), "for"))

\* /\(([^)]*)\)\s*=>/g: the first match at or after lastIndex.
ParenLambdaMatchAt(s, i) ==
    /\ CharAt(s, i) = "("
    /\ IndexOfFrom(s, ")", i + 1) >= 0
    /\ StartsWithAt(s, "=>", SkipSpaces(s, IndexOfFrom(s, ")", i + 1) + 1))

ParenLambdaMatch(s, lastIndex) ==
    LET hits == {i \in lastIndex..(Len(s) - 1) : ParenLambdaMatchAt(s, i)}
    IN IF hits = {} THEN NoMatch
       ELSE LET i == MinOf(hits)
                j == IndexOfFrom(s, ")", i + 1)
            IN [index |-> i, params |-> Substring(s, i + 1, j),
                lastIndex |-> SkipSpaces(s, j + 1) + 2]

\* /^\w+$/
IsWord(s) == Len(s) > 0 /\ SkipWord(s, 0) = Len(s)

LambdaParam(syms, idx, line, paramName, from) ==
    IF IsWord(paramName)
    THEN Append(syms, Symbol(paramName, "lambda-param", idx,
                             IndexOfFrom(line, paramName, from)))
    ELSE syms

RECURSIVE LambdaParams(_, _, _, _, _)
LambdaParams(syms, idx, line, params, from) ==
    IF Len(params) = 0 THEN syms
    ELSE LambdaParams(LambdaParam(syms, idx, line, Trim(params[1]), from),
                      idx, line, Tail(params), from)

RECURSIVE ParenLambdaScan(_, _, _, _)
RECURSIVE ParenLambdaStep(_, _, _, _)
ParenLambdaStep(syms, idx, line, lambdaMatch) ==
    IF lambdaMatch.index < 0 THEN syms
    ELSE ParenLambdaScan(
             LambdaParams(syms, idx, line, SplitOn(lambdaMatch.params, ","),
                          lambdaMatch.index),
             idx, line, lambdaMatch.lastIndex)

ParenLambdaScan(syms, idx, line, lastIndex) ==
    ParenLambdaStep(syms, idx, line, ParenLambdaMatch(Trim(line), lastIndex))

\* /\b(\w+)\s*=>/g: the first match at or after lastIndex.
BareLambdaMatchAt(s, i) ==
    /\ IsWordBoundary(s, i)
    /\ IsWordChar(CharAt(s, i))
    /\ StartsWithAt(s, "=>", SkipSpaces(s, SkipWord(s, i)))

BareLambdaMatch(s, lastIndex) ==
    LET hits == {i \in lastIndex..(Len(s) - 1) : BareLambdaMatchAt(s, i)}
    IN IF hits = {} THEN NoMatch
       ELSE LET i == MinOf(hits)
                j == SkipWord(s, i)
            IN [index |-> i, name |-> Substring(s, i, j),
                lastIndex |-> SkipSpaces(s, j) + 2]

\* this.symbols.some(s => s.name === paramName && s.line === lineIndex && s.type === 'lambda-param')
HasLambdaParam(syms, paramName, idx) ==
    \E k \in 1..Len(syms) :
        syms[k].name = paramName /\ syms[k].line = idx /\ syms[k].type = "lambda-param"

RECURSIVE BareLambdaScan(_, _, _, _)
RECURSIVE BareLambdaStep(_, _, _, _)
BareLambdaStep(syms, idx, line, bareMatch) ==
    IF bareMatch.index < 0 THEN syms
    ELSE BareLambdaScan(
             IF ~HasLambdaParam(syms, bareMatch.name, idx)
             THEN Append(syms, Symbol(bareMatch.name, "lambda-param", idx,
                                      IndexOfFrom(line, bareMatch.name, bareMatch.index)))
             ELSE syms,
             idx, line, bareMatch.lastIndex)

BareLambdaScan(syms, idx, line, lastIndex) ==
    BareLambdaStep(syms, idx, line, BareLambdaMatch(Trim(line), lastIndex))

\* (?:\.[a-zA-Z_]\w*)* from j: the end of the dotted path.
RECURSIVE SkipDotted(_, _)
SkipDotted(s, j) ==
    IF CharAt(s, j) = "." /\ IsIdentStart(CharAt(s, j + 1))
    THEN SkipDotted(s, SkipWord(s, j + 2))
    ELSE j

\* /\b([a-zA-Z_]\w*(?:\.[a-zA-Z_]\w*)+)\s*=/g: the first match at or after lastIndex.
PropAssignMatchAt(s, i) ==
    /\ IsWordBoundary(s, i)
    /\ IsIdentStart(CharAt(s, i))
    /\ SkipDotted(s, SkipWord(s, i + 1)) > SkipWord(s, i + 1)
    /\ CharAt(s, SkipSpaces(s, SkipDotted(s, SkipWord(s, i + 1)))) = "="

PropAssignMatch(s, lastIndex) ==
    LET hits == {i \in lastIndex..(Len(s) - 1) : PropAssignMatchAt(s, i)}
    IN IF hits = {} THEN NoMatch
       ELSE LET i == MinOf(hits)
                e == SkipDotted(s, SkipWord(s, i + 1))
            IN [index |-> i, path |-> Substring(s, i, e),
                lastIndex |-> SkipSpaces(s, e) + 1]

\* Variant of IsFirstAssignment: the seenProps set is not consulted.
IsAnyAssignment(seen, propPath) == TRUE

\* Whether a matched property path is recorded as a new symbol.
IsFirstAssignment(seen, propPath) == propPath \notin seen

RECURSIVE PropAssignScan(_, _, _, _)
RECURSIVE PropAssignStep(_, _, _, _)
PropAssignStep(es, idx, line, propMatch) ==
    IF propMatch.index < 0 THEN es
    ELSE PropAssignScan(
             IF IsFirstAssignment(es.seenProps, propMatch.path)
             THEN [symbols |-> Append(es.symbols,
                                      Symbol(propMatch.path, "property", idx,
                                             IndexOf(line, propMatch.path))),
                   seenProps |-> es.seenProps \cup {propMatch.path}]
             ELSE es,
             idx, line, propMatch.lastIndex)

PropAssignScan(es, idx, line, lastIndex) ==
    PropAssignStep(es, idx, line, PropAssignMatch(Trim(line), lastIndex))

\* The body of the forEach callback of extractSymbols for one line.
ExtractSymbolsOnLine(es, idx, line) ==
    IF IsSkippedLine(line) THEN es
    ELSE PropAssignScan(
             [symbols |->
                  BareLambdaScan(
                  ParenLambdaScan(
                  ForSymbols(
                  ForeachSymbols(
                  VarDeclScan(es.symbols, idx, line, 0),
                  idx, line), idx, line), idx, line, 0), idx, line, 0),
              seenProps |-> es.seenProps],
             idx, line, 0)

(***************************************************************************)
(* validateSemantics.                                                      *)
(***************************************************************************)
DeclaredVars(syms) == {syms[k].name : k \in 1..Len(syms)} \cup {"Data"}

\* /\b([a-zA-Z_]\w*)\b/g: the first match at or after lastIndex.
IdentMatch(s, lastIndex) ==
    LET hits == {i \in lastIndex..(Len(s) - 1) :
                    IsWordBoundary(s, i) /\ IsIdentStart(CharAt(s, i))}
    IN IF hits = {} THEN NoMatch
       ELSE LET i == MinOf(hits)
            IN [index |-> i, name |-> Substring(s, i, SkipWord(s, i)),
                lastIndex |-> SkipWord(s, i)]

\* The four 'continue' tests of the token loop.
IsPropertyAccess(s, pos) == pos > 0 /\ CharAt(s, pos - 1) = "."

IsCallPosition(s, endPos) == CharAt(s, SkipSpaces(s, endPos)) = "("

\* Variant of IsObjectKey: an identifier followed by '::' is taken as a key too.
IsObjectKeyAnyColon(s, endPos) ==
    LET k == SkipSpaces(s, endPos)
    IN CharAt(s, k) = ":"

IsObjectKey(s, endPos) ==
    LET k == SkipSpaces(s, endPos)
    IN CharAt(s, k) = ":" /\ CharAt(s, k + 1) # ":"

IsKnownName(varName) ==
    \/ varName \in keywords
    \/ varName \in typeKeywords
    \/ ToLowerCase(varName) \in functionNamesLower

\* The body of the token loop for the match of varName at pos.
IdentCheck(diags, declaredVars, idx, s, varName, pos) ==
    IF \/ IsPropertyAccess(s, pos)
       \/ IsCallPosition(s, pos + Len(varName))
       \/ IsObjectKey(s, pos + Len(varName))
       \/ IsKnownName(varName)
       \/ varName \in declaredVars
    THEN diags
    ELSE addDiagnostic(diags, idx, pos, idx, pos + Len(varName),
                       "Undefined variable \"" \o varName \o "\"",
                       DiagnosticSeverity.Warning)

RECURSIVE IdentScan(_, _, _, _, _)
RECURSIVE IdentStep(_, _, _, _, _)
IdentStep(diags, declaredVars, idx, s, match) ==
    IF match.index < 0 THEN diags
    ELSE IdentScan(IdentCheck(diags, declaredVars, idx, s, match.name, match.index),
                   declaredVars, idx, s, match.lastIndex)

IdentScan(diags, declaredVars, idx, s, lastIndex) ==
    IdentStep(diags, declaredVars, idx, s, IdentMatch(s, lastIndex))

ValidateSemanticsOnLine(diags, declaredVars, idx, line) ==
    IF IsSkippedLine(line) THEN diags
    ELSE IdentScan(diags, declaredVars, idx,
                   StripComment(removeStringLiterals(line)), 0)

(***************************************************************************)
(* analyze() as a function of the lines and the advisory flag: the three   *)
(* forEach loops folded over the lines.                                    *)
(***************************************************************************)
\* The locals of checkSyntax after its callback has run on the first k lines.
RECURSIVE CheckSyntaxLines(_, _, _)
CheckSyntaxLines(ls, k, warn) ==
    IF k = 0
    THEN [blockStack |-> <<>>, inLoop |-> 0, afterTerminator |-> FALSE, diagnostics |-> <<>>]
    ELSE CheckSyntaxOnLine(CheckSyntaxLines(ls, k - 1, warn), k - 1, ls[k], warn)

\* this.diagnostics when checkSyntax returns.
CheckSyntaxFinish(st, ls) == UnclosedBlockRule(st.diagnostics, st.blockStack, ls)

RECURSIVE ExtractSymbolsLines(_, _)
ExtractSymbolsLines(ls, k) ==
    IF k = 0 THEN [symbols |-> <<>>, seenProps |-> {}]
    ELSE ExtractSymbolsOnLine(ExtractSymbolsLines(ls, k - 1), k - 1, ls[k])

RECURSIVE ValidateSemanticsLines(_, _, _, _)
ValidateSemanticsLines(diags, declaredVars, ls, k) ==
    IF k = 0 THEN diags
    ELSE ValidateSemanticsOnLine(ValidateSemanticsLines(diags, declaredVars, ls, k - 1),
                                 declaredVars, k - 1, ls[k])

\* The list analyze() returns.
analyze(ls, warn) ==
    ValidateSemanticsLines(CheckSyntaxFinish(CheckSyntaxLines(ls, Len(ls), warn), ls),
                           DeclaredVars(ExtractSymbolsLines(ls, Len(ls)).symbols),
                           ls, Len(ls))

(***************************************************************************)
(* The analyzer as a state machine.  Each of the three passes of analyze() *)
(* runs its forEach callback one line per step (pc names the pass,         *)
(* lineIndex the next line); getSymbols() runs between calls of analyze(). *)
(* call is the public method being executed, history the list of the       *)
(* values the calls returned to the host, maxCalls the number of calls the *)
(* host makes.                                                             *)
(***************************************************************************)
CheckSyntaxLocals ==
    [blockStack |-> blockStack, inLoop |-> inLoop,
     afterTerminator |-> afterTerminator, diagnostics |-> diagnostics]

Returned(op, threw, result) == [op |-> op, threw |-> threw, result |-> result]

\* analyze(): the two resets, then the entry of checkSyntax.
AnalyzeCall ==
    /\ pc = "idle"
    /\ Len(history) < maxCalls
    /\ diagnostics' = <<>>
    /\ symbols' = <<>>
    /\ blockStack' = <<>>
    /\ inLoop' = 0
    /\ afterTerminator' = FALSE
    /\ lineIndex' = 0
    /\ pc' = "checkSyntax"
    /\ call' = "analyze"
    /\ UNCHANGED <<text, lines, warnOnHostFunctions, maxNumberOfProblems, handler, sent, server, client, formatter, signatureHelp, seenProps, raised, history, maxCalls>>

CheckSyntaxLine ==
    /\ pc = "checkSyntax"
    /\ lineIndex < Len(lines)
    /\ \E st \in {CheckSyntaxOnLine(CheckSyntaxLocals, lineIndex, lines[lineIndex + 1],
                                    warnOnHostFunctions)} :
          /\ blockStack' = st.blockStack
          /\ inLoop' = st.inLoop
          /\ afterTerminator' = st.afterTerminator
          /\ diagnostics' = st.diagnostics
    /\ lineIndex' = lineIndex + 1
    /\ UNCHANGED <<text, lines, warnOnHostFunctions, maxNumberOfProblems, handler, sent, server, client, formatter, signatureHelp, symbols, seenProps, pc, call,
                   raised, history, maxCalls>>

\* The end of checkSyntax and the entry of extractSymbols.
CheckSyntaxEnd ==
    /\ pc = "checkSyntax"
    /\ lineIndex = Len(lines)
    /\ IF UnclosedBlockThrows(blockStack, Len(lines))
       THEN /\ raised' = TRUE
            /\ pc' = "idle"
            /\ call' = "none"
            /\ history' = Append(history, Returned("analyze", TRUE, <<>>))
            /\ UNCHANGED <<diagnostics, seenProps, lineIndex>>
       ELSE /\ diagnostics' = UnclosedBlockRule(diagnostics, blockStack, lines)
            /\ pc' = "extractSymbols"
            /\ seenProps' = {}
            /\ lineIndex' = 0
            /\ UNCHANGED <<raised, history, call>>
    /\ UNCHANGED <<text, lines, warnOnHostFunctions, maxNumberOfProblems, handler, sent, server, client, formatter, signatureHelp, symbols, blockStack, inLoop,
                   afterTerminator, maxCalls>>

ExtractSymbolsLine ==
    /\ pc = "extractSymbols"
    /\ lineIndex < Len(lines)
    /\ \E es \in {ExtractSymbolsOnLine([symbols |-> symbols, seenProps |-> seenProps],
                                       lineIndex, lines[lineIndex + 1])} :
          /\ symbols' = es.symbols
          /\ seenProps' = es.seenProps
    /\ lineIndex' = lineIndex + 1
    /\ UNCHANGED <<text, lines, warnOnHostFunctions, maxNumberOfProblems, handler, sent, server, client, formatter, signatureHelp, diagnostics, blockStack, inLoop,
                   afterTerminator, pc, call, raised, history, maxCalls>>

\* The end of extractSymbols: back in analyze() (validateSemantics follows) or
\* in getSymbols() (which returns this.symbols).
ExtractSymbolsEnd ==
    /\ pc = "extractSymbols"
    /\ lineIndex = Len(lines)
    /\ IF call = "analyze"
       THEN /\ pc' = "validateSemantics"
            /\ lineIndex' = 0
            /\ UNCHANGED <<call, history>>
       ELSE /\ pc' = "idle"
            /\ call' = "none"
            /\ history' = Append(history, Returned("getSymbols", FALSE, symbols))
            /\ UNCHANGED lineIndex
    /\ UNCHANGED <<text, lines, warnOnHostFunctions, maxNumberOfProblems, handler, sent, server, client, formatter, signatureHelp, diagnostics, symbols, blockStack,
                   inLoop, afterTerminator, seenProps, raised, maxCalls>>

ValidateSemanticsLine ==
    /\ pc = "validateSemantics"
    /\ lineIndex < Len(lines)
    /\ diagnostics' = ValidateSemanticsOnLine(diagnostics, DeclaredVars(symbols),
                                              lineIndex, lines[lineIndex + 1])
    /\ lineIndex' = lineIndex + 1
    /\ UNCHANGED <<text, lines, warnOnHostFunctions, maxNumberOfProblems, handler, sent, server, client, formatter, signatureHelp, symbols, blockStack, inLoop,
                   afterTerminator, seenProps, pc, call, raised, history, maxCalls>>

\* The end of validateSemantics: analyze() returns this.diagnostics.
AnalyzeReturn ==
    /\ pc = "validateSemantics"
    /\ lineIndex = Len(lines)
    /\ pc' = "idle"
    /\ call' = "none"
    /\ history' = Append(history, Returned("analyze", FALSE, diagnostics))
    /\ UNCHANGED <<text, lines, warnOnHostFunctions, maxNumberOfProblems, handler, sent, server, client, formatter, signatureHelp, diagnostics, symbols, blockStack,
                   inLoop, afterTerminator, seenProps, lineIndex, raised, maxCalls>>

\* Variant of GetSymbolsCall: extractSymbols() runs on every call.
GetSymbolsAlwaysExtracts ==
    /\ pc = "idle"
    /\ Len(history) < maxCalls
    /\ pc' = "extractSymbols"
    /\ call' = "getSymbols"
    /\ seenProps' = {}
    /\ lineIndex' = 0
    /\ UNCHANGED history
    /\ UNCHANGED <<text, lines, warnOnHostFunctions, maxNumberOfProblems, handler, sent, server, client, formatter, signatureHelp, diagnostics, symbols, blockStack,
                   inLoop, afterTerminator, raised, maxCalls>>

\* getSymbols(): extractSymbols() runs only when this.symbols is empty.
GetSymbolsCall ==
    /\ pc = "idle"
    /\ Len(history) < maxCalls
    /\ IF Len(symbols) = 0
       THEN /\ pc' = "extractSymbols"
            /\ call' = "getSymbols"
            /\ seenProps' = {}
            /\ lineIndex' = 0
            /\ UNCHANGED history
       ELSE /\ history' = Append(history, Returned("getSymbols", FALSE, symbols))
            /\ UNCHANGED <<pc, call, seenProps, lineIndex>>
    /\ UNCHANGED <<text, lines, warnOnHostFunctions, maxNumberOfProblems, handler, sent, server, client, formatter, signatureHelp, diagnostics, symbols, blockStack,
                   inLoop, afterTerminator, raised, maxCalls>>

(***************************************************************************)
(* The server's validateTextDocument: it builds an analyzer over the text  *)
(* of the document, calls analyze(), keeps the first maxNumberOfProblems   *)
(* diagnostics and sends them.  handler names the server handler being     *)
(* executed, sent the lists passed to connection.sendDiagnostics.          *)
(***************************************************************************)
defaultSettings == [maxNumberOfProblems |-> 100, warnOnHostFunctions |-> TRUE]

\* Array.prototype.slice(start, end): a negative index counts from the end.
SliceIndex(k, len) == IF k < 0 THEN (IF len + k < 0 THEN 0 ELSE len + k)
                      ELSE IF k > len THEN len ELSE k

\* Variant of Slice: the element at end is kept as well.
SliceThroughEnd(ds, start, end) ==
    SubSeq(ds, SliceIndex(start, Len(ds)) + 1, SliceIndex(end + 1, Len(ds)))

Slice(ds, start, end) ==
    SubSeq(ds, SliceIndex(start, Len(ds)) + 1, SliceIndex(end, Len(ds)))

\* new DocumentAnalyzer(text, uri, {warnOnHostFunctions}) and the entry of analyze().
ValidateTextDocument ==
    /\ pc = "idle"
    /\ handler = "none"
    /\ Len(history) < maxCalls
    /\ handler' = "validateTextDocument"
    /\ diagnostics' = <<>>
    /\ symbols' = <<>>
    /\ blockStack' = <<>>
    /\ inLoop' = 0
    /\ afterTerminator' = FALSE
    /\ lineIndex' = 0
    /\ pc' = "checkSyntax"
    /\ call' = "analyze"
    /\ UNCHANGED <<text, lines, warnOnHostFunctions, seenProps, raised, history, maxCalls,
                   maxNumberOfProblems, sent, server, client, formatter, signatureHelp>>

\* analyze() has returned to validateTextDocument: slice and send.
SendDiagnostics ==
    /\ handler = "validateTextDocument"
    /\ pc = "idle"
    /\ handler' = "none"
    /\ sent' = IF history[Len(history)].threw THEN sent
               ELSE Append(sent, Slice(history[Len(history)].result, 0, maxNumberOfProblems))
    /\ UNCHANGED <<text, lines, warnOnHostFunctions, diagnostics, symbols, blockStack,
                   inLoop, afterTerminator, seenProps, lineIndex, pc, call, raised,
                   history, maxCalls, maxNumberOfProblems, server, client, formatter, signatureHelp>>

(***************************************************************************)
(* The session of one document.  The client writes didChange and           *)
(* didChangeConfiguration notifications and the answers to the server's    *)
(* workspace/configuration requests into one ordered stream (toServer);    *)
(* the server handles one message at a time, and the continuations of the  *)
(* promises a message resolves run before the next message is handled.     *)
(* Settings are identified by the number of the client configuration they  *)
(* were read from, texts by the version of the document.  server.changed   *)
(* records the configuration of the last notification handled.             *)
(***************************************************************************)
analyzerVars == <<text, lines, warnOnHostFunctions, diagnostics, symbols, blockStack, inLoop,
                  afterTerminator, seenProps, lineIndex, pc, call, raised, history, maxCalls,
                  maxNumberOfProblems, handler, sent>>

\* The module state after onInitialize: globalSettings = defaultSettings, an
\* empty documentSettings map (0: no entry for the document), no document.
Initialized(cap) ==
    [hasConfigurationCapability |-> cap,
     globalSettings |-> 0,
     documentSettings |-> 0,
     requests |-> <<>>,
     version |-> 0,
     changed |-> 0,
     published |-> <<>>]

Connected ==
    [configuration |-> 0, edits |-> 0, answers |-> {}, replied |-> {}, toServer |-> <<>>]

\* Variant of GetText: the text the document had when validateTextDocument was called.
GetTextAtCall(srv, textDocument) == textDocument.version

\* textDocument.getText() after the await: the document manager keeps one
\* TextDocument per uri and updates it in place, so this is the current text.
GetText(srv, textDocument) == srv.version

\* analyze(), slice and connection.sendDiagnostics of one validation.
Publish(srv, textDocument, settings) ==
    [srv EXCEPT !.published =
         Append(@, [text |-> GetText(srv, textDocument), settings |-> settings])]

\* The continuations of the validations awaiting one promise, in the order of
\* their calls.
RECURSIVE PublishAll(_, _, _)
PublishAll(srv, waiting, settings) ==
    IF Len(waiting) = 0 THEN srv
    ELSE PublishAll(Publish(srv, Head(waiting), settings), Tail(waiting), settings)

\* getDocumentSettings(uri) and the await on its result.
validateTextDocument(srv, textDocument) ==
    IF ~srv.hasConfigurationCapability
    THEN Publish(srv, textDocument, srv.globalSettings)
    ELSE IF srv.documentSettings = 0
    THEN [srv EXCEPT !.requests = Append(@, [resolved |-> FALSE, settings |-> 0,
                                            waiting |-> <<textDocument>>]),
                     !.documentSettings = Len(srv.requests) + 1]
    ELSE IF srv.requests[srv.documentSettings].resolved
    THEN Publish(srv, textDocument, srv.requests[srv.documentSettings].settings)
    ELSE [srv EXCEPT !.requests[srv.documentSettings].waiting = Append(@, textDocument)]

\* connection.onDidChangeConfiguration: the state before the re-validation.
DidChangeConfiguration(srv, settings) ==
    IF srv.hasConfigurationCapability
    THEN [srv EXCEPT !.documentSettings = 0, !.changed = settings]
    ELSE [srv EXCEPT !.globalSettings = settings, !.changed = settings]

\* The promise of request id is resolved with settings.
Resolved(srv, id, settings) ==
    [srv EXCEPT !.requests[id] = [resolved |-> TRUE, settings |-> settings, waiting |-> <<>>]]

\* The user edits the document (the first edit stands for opening it).
ChangeContent ==
    /\ client.edits < MaxEdits
    /\ client' = [client EXCEPT !.edits = @ + 1,
                                !.toServer = Append(@, [method |-> "didChange", id |-> 0,
                                                        settings |-> 0])]
    /\ UNCHANGED server
    /\ UNCHANGED <<analyzerVars, formatter, signatureHelp>>

\* The user changes the configuration; the client notifies the server.
ChangeConfiguration ==
    /\ client.configuration < MaxChanges
    /\ client' = [client EXCEPT !.configuration = @ + 1,
                                !.toServer = Append(@, [method |-> "didChangeConfiguration",
                                                        id |-> 0,
                                                        settings |-> client.configuration + 1])]
    /\ UNCHANGED server
    /\ UNCHANGED <<analyzerVars, formatter, signatureHelp>>

\* The client reads its configuration for a workspace/configuration request.
ReadConfiguration ==
    /\ \E id \in 1..Len(server.requests) :
          /\ \A a \in client.answers : a.id # id
          /\ client' = [client EXCEPT !.answers =
                            @ \cup {[id |-> id, settings |-> client.configuration]}]
    /\ UNCHANGED server
    /\ UNCHANGED <<analyzerVars, formatter, signatureHelp>>

\* The client writes the answer it has read.
ReplyConfiguration ==
    /\ \E a \in client.answers :
          /\ a.id \notin client.replied
          /\ client' = [client EXCEPT !.replied = @ \cup {a.id},
                                      !.toServer = Append(@, [method |-> "configuration",
                                                              id |-> a.id,
                                                              settings |-> a.settings])]
    /\ UNCHANGED server
    /\ UNCHANGED <<analyzerVars, formatter, signatureHelp>>

\* documents.onDidChangeContent
OnDidChangeContent ==
    /\ Len(client.toServer) > 0
    /\ Head(client.toServer).method = "didChange"
    /\ server' = validateTextDocument([server EXCEPT !.version = @ + 1],
                                      [version |-> server.version + 1])
    /\ client' = [client EXCEPT !.toServer = Tail(@)]
    /\ UNCHANGED <<analyzerVars, formatter, signatureHelp>>

\* connection.onDidChangeConfiguration
OnDidChangeConfiguration ==
    /\ Len(client.toServer) > 0
    /\ Head(client.toServer).method = "didChangeConfiguration"
    /\ server' = IF server.version > 0
                 THEN validateTextDocument(
                          DidChangeConfiguration(server, Head(client.toServer).settings),
                          [version |-> server.version])
                 ELSE DidChangeConfiguration(server, Head(client.toServer).settings)
    /\ client' = [client EXCEPT !.toServer = Tail(@)]
    /\ UNCHANGED <<analyzerVars, formatter, signatureHelp>>

\* The answer to connection.workspace.getConfiguration arrives: the awaiting
\* validations resume.
OnConfiguration ==
    /\ Len(client.toServer) > 0
    /\ Head(client.toServer).method = "configuration"
    /\ server' = PublishAll(Resolved(server, Head(client.toServer).id,
                                     Head(client.toServer).settings),
                            server.requests[Head(client.toServer).id].waiting,
                            Head(client.toServer).settings)
    /\ client' = [client EXCEPT !.toServer = Tail(@)]
    /\ UNCHANGED <<analyzerVars, formatter, signatureHelp>>

NextSession ==
    \/ ChangeContent
    \/ ChangeConfiguration
    \/ ReadConfiguration
    \/ ReplyConfiguration
    \/ OnDidChangeContent
    \/ OnDidChangeConfiguration
    \/ OnConfiguration

Next ==
    \/ AnalyzeCall
    \/ CheckSyntaxLine
    \/ CheckSyntaxEnd
    \/ ExtractSymbolsLine
    \/ ExtractSymbolsEnd
    \/ ValidateSemanticsLine
    \/ AnalyzeReturn
    \/ GetSymbolsCall

\* The analyzer driven by the server as well as called directly.
NextServer ==
    \/ Next
    \/ ValidateTextDocument
    \/ SendDiagnostics

\* The state after new DocumentAnalyzer(t, uri, {warnOnHostFunctions: w}).
Constructed(t, w) ==
    /\ text = t
    /\ lines = SplitLines(t)
    /\ warnOnHostFunctions = w
    /\ diagnostics = <<>>
    /\ symbols = <<>>
    /\ blockStack = <<>>
    /\ inLoop = 0
    /\ afterTerminator = FALSE
    /\ seenProps = {}
    /\ lineIndex = 0
    /\ pc = "idle"
    /\ call = "none"
    /\ raised = FALSE
    /\ history = <<>>

(***************************************************************************)
(* Input documents: texts made of the lines of a vocabulary.               *)
(***************************************************************************)
RECURSIVE JoinLines(_, _)
JoinLines(ls, eol) ==
    IF Len(ls) = 0 THEN ""
    ELSE IF Len(ls) = 1 THEN ls[1]
    ELSE ls[1] \o eol \o JoinLines(Tail(ls), eol)

DocsOver(V, n) == UNION {[1..k -> V] : k \in 0..n}

TextsOver(V, n) == {JoinLines(d, "\n") : d \in DocsOver(V, n)}

(***************************************************************************)
(* formatJyroDocument and its helpers.  formatter holds the locals of one  *)
(* call: the lines after splitOnKeywords, the loop index i, currentIndent, *)
(* inCaseBody, formattedLines, the indent unit and the returned text.      *)
(***************************************************************************)
\* (char === '"' || char === "'") && (i === 0 || line[i - 1] !== '\\')
IsUnescapedQuote(line, i) ==
    IsQuote(CharAt(line, i)) /\ (i = 0 \/ CharAt(line, i - 1) # "\\")

\* The string state after an unescaped quote character.
QuoteToggle(inString, char) ==
    IF inString = "" THEN char ELSE IF inString = char THEN "" ELSE inString

RECURSIVE BraceScan(_, _, _, _)
BraceScan(line, brace, i, inString) ==
    IF i >= Len(line) THEN 0
    ELSE IF IsUnescapedQuote(line, i)
    THEN BraceScan(line, brace, i + 1, QuoteToggle(inString, CharAt(line, i)))
    ELSE (IF inString = "" /\ CharAt(line, i) = brace THEN 1 ELSE 0)
             + BraceScan(line, brace, i + 1, inString)

countBracesOutsideStrings(line, brace) == BraceScan(line, brace, 0, "")

\* remaining.match(/^(w1|w2|...)\b/) for remaining = s.slice(i)
KeywordAt(s, i, words) ==
    \E w \in words : StartsWithAt(s, w, i) /\ IsWordBoundary(s, i + Len(w))

StatementWords ==
    {"var", "if", "elseif", "while", "for", "foreach", "switch", "case", "default",
     "return", "fail", "break", "continue"}

\* /\bend\s*$/
EndsWithEnd(s) ==
    WordAt(TrimEnd(s), "end", Len(TrimEnd(s)) - 3)

IsSelfContainedBlock(trimmedLower) ==
    /\ StartsWithWord(trimmedLower, {"if", "while", "for", "foreach", "switch", "else",
                                     "elseif", "case", "default"})
    /\ ContainsWord(trimmedLower, {"then", "do"})
    /\ EndsWithEnd(trimmedLower)

PushTrimmed(result, current) ==
    IF Trim(current) # "" THEN Append(result, Trim(current)) ELSE result

\* The while loop of splitOnKeywords; lower is trimmed in lower case (the
\* keyword patterns carry the i flag).
RECURSIVE SplitScan(_, _, _, _, _, _, _)
SplitScan(trimmed, lower, selfContained, i, current, inString, result) ==
    IF i >= Len(trimmed) THEN PushTrimmed(result, current)
    ELSE IF IsUnescapedQuote(trimmed, i)
    THEN SplitScan(trimmed, lower, selfContained, i + 1, current \o CharAt(trimmed, i),
                   QuoteToggle(inString, CharAt(trimmed, i)), result)
    ELSE IF inString # ""
    THEN SplitScan(trimmed, lower, selfContained, i + 1, current \o CharAt(trimmed, i),
                   inString, result)
    ELSE IF /\ (i = 0 \/ IsSpace(CharAt(trimmed, i - 1)))
            /\ Trim(current) # ""
            /\ \/ KeywordAt(lower, i, StatementWords)
               \/ (~selfContained /\ KeywordAt(lower, i, {"end"}))
    THEN SplitScan(trimmed, lower, selfContained, i + 1, CharAt(trimmed, i), inString,
                   Append(result, Trim(current)))
    ELSE SplitScan(trimmed, lower, selfContained, i + 1, current \o CharAt(trimmed, i),
                   inString, result)

SplitResult(line, result) == IF Len(result) > 0 THEN result ELSE <<line>>

splitOnKeywords(line) ==
    IF Trim(line) = "" \/ StartsWith(Trim(line), "#") THEN <<line>>
    ELSE SplitResult(line, SplitScan(Trim(line), ToLowerCase(Trim(line)),
                                     IsSelfContainedBlock(ToLowerCase(Trim(line))),
                                     0, "", "", <<>>))

TwoCharOperators ==
    {"==", "!=", "<=", ">=", "=>", "++", "--", "??", "+=", "-=", "*=", "/=", "%="}

OneCharOperators == {"+", "-", "*", "/", "%", "<", ">", "="}

\* if (result.endsWith(' ')) result = result.slice(0, -1)
DropTrailingSpace(result) ==
    IF Len(result) > 0 /\ CharAt(result, Len(result) - 1) = " "
    THEN Substring(result, 0, Len(result) - 1)
    ELSE result

\* The test for the sign of a number.
IsNumberSign(char, prevChar, beforePrev, nextChar) ==
    /\ char \in {"-", "+"}
    /\ \/ prevChar \in {"", "(", ",", "="}
       \/ (prevChar = " " /\ beforePrev \in CharsOf("=<>!+-*/%,("))
    /\ IsDigit(nextChar)

RECURSIVE OperatorScan(_, _, _, _)
OperatorScan(line, i, result, inString) ==
    IF i >= Len(line) THEN result
    ELSE IF IsUnescapedQuote(line, i)
    THEN OperatorScan(line, i + 1, result \o CharAt(line, i),
                      QuoteToggle(inString, CharAt(line, i)))
    ELSE IF inString # ""
    THEN OperatorScan(line, i + 1, result \o CharAt(line, i), inString)
    ELSE IF CharAt(line, i) = "#" THEN result \o SubstringFrom(line, i)
    ELSE IF (CharAt(line, i) \o CharAt(line, i + 1)) \in TwoCharOperators
    THEN OperatorScan(line, i + 2,
                      IF (CharAt(line, i) \o CharAt(line, i + 1)) \in {"++", "--"}
                      THEN DropTrailingSpace(result) \o CharAt(line, i) \o CharAt(line, i + 1)
                      ELSE DropTrailingSpace(result) \o " " \o CharAt(line, i)
                               \o CharAt(line, i + 1) \o " ",
                      inString)
    ELSE IF CharAt(line, i) \in OneCharOperators
    THEN OperatorScan(line, i + 1,
                      IF IsNumberSign(CharAt(line, i), CharAt(result, Len(result) - 1),
                                      CharAt(result, Len(result) - 2), CharAt(line, i + 1))
                      THEN result \o CharAt(line, i)
                      ELSE DropTrailingSpace(result) \o " " \o CharAt(line, i) \o " ",
                      inString)
    ELSE OperatorScan(line, i + 1, result \o CharAt(line, i), inString)

\* content.replace(/  +/g, ' ')
RECURSIVE CollapseSpaces(_, _)
CollapseSpaces(s, i) ==
    IF i >= Len(s) THEN ""
    ELSE IF CharAt(s, i) = " " /\ i > 0 /\ CharAt(s, i - 1) = " "
    THEN CollapseSpaces(s, i + 1)
    ELSE CharAt(s, i) \o CollapseSpaces(s, i + 1)

\* The start of the word that ends just before index i.
RECURSIVE WordStart(_, _)
WordStart(s, i) == IF i > 0 /\ IsWordChar(CharAt(s, i - 1)) THEN WordStart(s, i - 1) ELSE i

\* content.replace(/\b(\w+)\s+\(/g, ...): the blanks between a word and '('
\* are removed, or become one blank after if, while, for, foreach, switch.
RECURSIVE CallSpaces(_, _)
CallSpaces(s, i) ==
    IF i >= Len(s) THEN ""
    ELSE IF /\ IsSpace(CharAt(s, i))
            /\ i > 0 /\ IsWordChar(CharAt(s, i - 1))
            /\ CharAt(s, SkipSpaces(s, i)) = "("
    THEN (IF Substring(s, WordStart(s, i), i) \in {"if", "while", "for", "foreach", "switch"}
          THEN " " ELSE "")
             \o CallSpaces(s, SkipSpaces(s, i))
    ELSE CharAt(s, i) \o CallSpaces(s, i + 1)

\* The clean-up of the scanned line: the leading white space is kept.
CleanUp(result) ==
    Substring(result, 0, SkipSpaces(result, 0))
        \o Trim(CallSpaces(CollapseSpaces(SubstringFrom(result, SkipSpaces(result, 0)), 0), 0))

formatOperators(line) ==
    IF StartsWith(Trim(line), "#") THEN line
    ELSE CleanUp(OperatorScan(line, 0, "", ""))

\* text.split(/\r?\n/)
FormatRawLines(t) ==
    LET parts == SplitOn(t, "\n")
    IN [i \in 1..Len(parts) |->
            IF i < Len(parts) THEN StripTrailingCR(parts[i]) ELSE parts[i]]

RECURSIVE SplitAll(_)
SplitAll(rawLines) ==
    IF Len(rawLines) = 0 THEN <<>>
    ELSE splitOnKeywords(Head(rawLines)) \o SplitAll(Tail(rawLines))

RECURSIVE Repeat(_, _)
Repeat(s, n) == IF n <= 0 THEN "" ELSE s \o Repeat(s, n - 1)

Max0(n) == IF n < 0 THEN 0 ELSE n

\* The state when the main loop of formatJyroDocument(t, options) starts.
FormatCall(t, tabSize, insertSpaces) ==
    [lines |-> SplitAll(FormatRawLines(t)),
     i |-> 0,
     indent |-> IF insertSpaces THEN Repeat(" ", tabSize) ELSE "\t",
     currentIndent |-> 0,
     inCaseBody |-> FALSE,
     formattedLines |-> <<>>,
     returned |-> FALSE,
     result |-> ""]

\* No call of the formatter is in progress.
FormatIdle ==
    [lines |-> <<>>, i |-> 0, indent |-> "", currentIndent |-> 0, inCaseBody |-> FALSE,
     formattedLines |-> <<>>, returned |-> TRUE, result |-> ""]

\* Variant of EndDedent: 'end' drops one level inside a case body too.
EndDedentOneLevel(f, isBlockEnd, isBlockContinue) ==
    IF isBlockEnd \/ isBlockContinue
    THEN [f EXCEPT !.currentIndent = Max0(@ - 1)]
    ELSE f

\* Decrease indent before 'end', 'else', 'elseif'.
EndDedent(f, isBlockEnd, isBlockContinue) ==
    IF isBlockEnd \/ isBlockContinue
    THEN IF isBlockEnd /\ f.inCaseBody
         THEN [f EXCEPT !.currentIndent = Max0(@ - 2), !.inCaseBody = FALSE]
         ELSE [f EXCEPT !.currentIndent = Max0(@ - 1)]
    ELSE f

\* Decrease indent before 'case'/'default' inside a previous case body.
CaseDedent(f, isCase) ==
    IF isCase /\ f.inCaseBody THEN [f EXCEPT !.currentIndent = Max0(@ - 1)] ELSE f

\* Decrease indent for closing braces and parens at the start of the line.
CloserDedent(f, trimmed) ==
    LET g == IF StartsWith(trimmed, "}")
             THEN [f EXCEPT !.currentIndent =
                       Max0(@ - countBracesOutsideStrings(trimmed, "}"))]
             ELSE f
    IN IF StartsWith(trimmed, ")")
       THEN [g EXCEPT !.currentIndent = Max0(@ - countBracesOutsideStrings(trimmed, ")"))]
       ELSE g

\* formattedLines.push(indent.repeat(currentIndent) + trimmed)
PushIndented(f, trimmed) ==
    [f EXCEPT !.formattedLines = Append(@, Repeat(f.indent, f.currentIndent) \o trimmed)]

\* Increase indent after block-starting keywords with 'then' or 'do', or after
\* 'else', 'elseif'.
KeywordIndent(f, lower) ==
    IF ContainsWord(lower, {"end"}) /\ ~StartsWithWord(lower, {"end"}) THEN f
    ELSE IF /\ StartsWithWord(lower, {"if", "while", "for", "foreach", "switch", "case",
                                      "default"})
            /\ ContainsWord(lower, {"then", "do"})
    THEN [f EXCEPT !.currentIndent = @ + 1,
                   !.inCaseBody = IF StartsWithWord(lower, {"case", "default"})
                                  THEN TRUE ELSE @]
    ELSE IF StartsWithWord(lower, {"else", "elseif"})
    THEN [f EXCEPT !.currentIndent = @ + 1]
    ELSE f

\* Brace- and paren-based indentation after the line.
OpenerIndent(f, trimmed, open, close) ==
    IF ~StartsWith(trimmed, close)
    THEN [f EXCEPT !.currentIndent =
              Max0(@ + countBracesOutsideStrings(trimmed, open)
                     - countBracesOutsideStrings(trimmed, close))]
    ELSE [f EXCEPT !.currentIndent = @ + countBracesOutsideStrings(trimmed, open)]

\* The body of the main loop for a non-blank line, trimmed and with its
\* operators formatted.
FormatTrimmed(f, trimmed, lower) ==
    OpenerIndent(
    OpenerIndent(
    KeywordIndent(
    PushIndented(
    CloserDedent(
    CaseDedent(
    EndDedent(f, StartsWithWord(lower, {"end"}), StartsWithWord(lower, {"else", "elseif"})),
    StartsWithWord(lower, {"case", "default"})),
    trimmed), trimmed), lower), trimmed, "{", "}"), trimmed, "(", ")")

FormatLower(f, trimmed) == FormatTrimmed(f, trimmed, ToLowerCase(trimmed))

\* One iteration of the main loop.
FormatStep(f, line) ==
    [(IF Trim(line) = ""
      THEN [f EXCEPT !.formattedLines = Append(@, "")]
      ELSE FormatLower(f, formatOperators(Trim(line))))
     EXCEPT !.i = f.i + 1]

FormatLine ==
    /\ ~formatter.returned
    /\ formatter.i < Len(formatter.lines)
    /\ formatter' = FormatStep(formatter, formatter.lines[formatter.i + 1])
    /\ UNCHANGED <<analyzerVars, server, client, signatureHelp>>

\* return formattedLines.join('\n')
FormatReturn ==
    /\ ~formatter.returned
    /\ formatter.i = Len(formatter.lines)
    /\ formatter' = [formatter EXCEPT !.returned = TRUE,
                                      !.result = JoinLines(formatter.formattedLines, "\n")]
    /\ UNCHANGED <<analyzerVars, server, client, signatureHelp>>

NextFormat ==
    \/ FormatLine
    \/ FormatReturn

(***************************************************************************)
(* connection.onSignatureHelp.  signatureHelp holds the text and the       *)
(* offset of the request and the value the handler returns.                *)
(***************************************************************************)
\* funcSig.parameters.length for the function of the registry called name.
ParametersLength(name) ==
    CASE name \in
             {"Now", "Today", "NewGuid"} -> 0
      [] name \in
             {"ToUpper", "ToLower", "Trim", "ToNumber", "Length", "First", "Last",
              "Reverse", "Distinct", "Sort", "Flatten", "FlattenOnce",
              "RemoveFirst", "RemoveLast", "RandomChoice", "Abs", "Floor",
              "Ceiling", "Min", "Max", "SquareRoot", "Sum", "Average", "Median",
              "Mode", "ParseDate", "TypeOf", "Coalesce", "ToString", "ToBoolean",
              "Keys", "Values", "Merge", "Clone", "Base64Encode", "Base64Decode",
              "FromJson", "ToJson", "Sleep"} -> 1
      [] name \in
             {"Contains", "StartsWith", "EndsWith", "Split", "Join", "RegexTest",
              "RegexMatch", "RegexMatchAll", "RegexMatchDetail", "RandomString",
              "Append", "Prepend", "IndexOf", "Concatenate", "Skip", "RemoveAt",
              "GroupBy", "SelectMany", "Power", "Log", "RandomInt", "FormatDate",
              "DatePart", "Select", "Project", "Omit", "Map", "Where", "Each",
              "Find", "All", "Any", "SortBy", "Equal", "NotEqual", "HasProperty",
              "ValidateRequired", "ValidateSchema"} -> 2
      [] name \in
             {"Replace", "Substring", "PadLeft", "PadRight", "Slice", "Range",
              "Insert", "SortByField", "Clamp", "DateAdd", "DateDiff", "Reduce"} -> 3
      [] name \in
             {"WhereByField", "FindByField", "AnyByField", "AllByField", "CountIf"} -> 4
      [] OTHER -> 0

\* The for loop from offset - 1 down to 0: funcStart, or -1.
RECURSIVE FuncStartScan(_, _, _)
FuncStartScan(t, i, parenDepth) ==
    IF i < 0 THEN -1
    ELSE IF CharAt(t, i) = ")" THEN FuncStartScan(t, i - 1, parenDepth + 1)
    ELSE IF CharAt(t, i) = "("
    THEN IF parenDepth = 0 THEN i ELSE FuncStartScan(t, i - 1, parenDepth - 1)
    ELSE FuncStartScan(t, i - 1, parenDepth)

\* beforeParen.match(/(\w+)\s*$/)[1], or "" when there is no match.
FuncNameMatch(beforeParen) ==
    Substring(TrimEnd(beforeParen), WordStart(TrimEnd(beforeParen), Len(TrimEnd(beforeParen))),
              Len(TrimEnd(beforeParen)))

\* getFunctionSignature(name): the registry name that equals name in lower
\* case, or "" when there is none.
getFunctionSignature(name) ==
    IF ToLowerCase(name) \in functionNamesLower
    THEN CHOOSE f \in functionNames : ToLowerCase(f) = ToLowerCase(name)
    ELSE ""

\* (callText.match(/,/g) || []).length
CommaCount(callText) == Cardinality({i \in 1..Len(callText) : SubSeq(callText, i, i) = ","})

\* Variant of ActiveParameter: the index is not allowed below 0.
ActiveParameterClamped(commaCount, parametersLength) ==
    Max0(IF commaCount < parametersLength - 1 THEN commaCount ELSE parametersLength - 1)

\* Math.min(commaCount, funcSig.parameters.length - 1)
ActiveParameter(commaCount, parametersLength) ==
    IF commaCount < parametersLength - 1 THEN commaCount ELSE parametersLength - 1

NoSignature == [isNull |-> TRUE, name |-> "", activeSignature |-> 0, activeParameter |-> 0]

SignatureOf(t, offset, funcStart, funcSig) ==
    IF funcSig = "" THEN NoSignature
    ELSE [isNull |-> FALSE, name |-> funcSig, activeSignature |-> 0,
          activeParameter |-> ActiveParameter(CommaCount(Substring(t, funcStart + 1, offset)),
                                              ParametersLength(funcSig))]

SignatureAt(t, offset, funcStart) ==
    IF funcStart = -1 THEN NoSignature
    ELSE IF FuncNameMatch(Trim(Substring(t, 0, funcStart))) = "" THEN NoSignature
    ELSE SignatureOf(t, offset, funcStart,
                     getFunctionSignature(FuncNameMatch(Trim(Substring(t, 0, funcStart)))))

\* The value the handler returns for the document text t and the offset of
\* params.position.
onSignatureHelp(t, offset) == SignatureAt(t, offset, FuncStartScan(t, offset - 1, 0))

\* No signature-help request is in progress.
SignatureIdle == [text |-> "", offset |-> 0, returned |-> TRUE, result |-> NoSignature]

SignatureRequest(t, offset) ==
    [text |-> t, offset |-> offset, returned |-> FALSE, result |-> NoSignature]

OnSignatureHelp ==
    /\ ~signatureHelp.returned
    /\ signatureHelp' = [signatureHelp EXCEPT
                             !.returned = TRUE,
                             !.result = onSignatureHelp(signatureHelp.text, signatureHelp.offset)]
    /\ UNCHANGED <<analyzerVars, server, client, formatter>>

NextSignature == OnSignatureHelp

\* The host builds one analyzer over a text drawn from T, with the advisory
\* flag drawn from W, and makes up to n calls of analyze() / getSymbols().
InitOver(T, W, n) ==
    /\ \E t \in T : \E w \in W : Constructed(t, w)
    /\ maxCalls = n
    /\ maxNumberOfProblems = defaultSettings.maxNumberOfProblems
    /\ handler = "none"
    /\ sent = <<>>
    /\ server = Initialized(TRUE)
    /\ client = Connected
    /\ formatter = FormatIdle
    /\ signatureHelp = SignatureIdle

(***************************************************************************)
(* Reading the diagnostics list.                                           *)
(***************************************************************************)
Count(S) == Cardinality(S)

DiagIndices == 1..Len(diagnostics)

OnLine(k, i) == diagnostics[k].range.start.line = i

UnexpectedEndMsg == "Unexpected \"end\" without matching block start"

UnclosedBlockMsgs ==
    {"Unclosed \"" \o w \o "\" block - missing \"end\"" : w \in BlockOpenWords}

LoopExitMsgs == {"\"" \o w \o "\" can only be used inside loops" : w \in LoopExitWords}

\* analyze() has left checkSyntax: every diagnostic of checkSyntax is in the list.
SyntaxChecked == call = "analyze" /\ pc \in {"extractSymbols", "validateSemantics"}

\* The forEach loop of checkSyntax has consumed the last line.
SyntaxScanned ==
    call = "analyze" /\ (SyntaxChecked \/ (pc = "checkSyntax" /\ lineIndex = Len(lines)))

(***************************************************************************)
(* C1.  Documents that are well-formed nestings: every block is opened by  *)
(* a line of NestOpeners and closed by its own "end" line.                 *)
(***************************************************************************)
NestOpeners ==
    {"if x then", "while x do", "for i in 1 to 3 do", "foreach i in xs do", "switch x do"}

\* A block written on one line and a plain statement leave the depth as it is.
NestVocab == NestOpeners \cup {"end", "if x then x = 1 end", "  x = 1"}

\* The number of blocks open after the first k lines of d.
NestDepth(d, k) ==
    Count({j \in 1..k : d[j] \in NestOpeners}) - Count({j \in 1..k : d[j] = "end"})

WellNested(d) ==
    /\ \A k \in 1..Len(d) : NestDepth(d, k) >= 0
    /\ NestDepth(d, Len(d)) = 0

NestTexts ==
    {JoinLines(d, "\n") : d \in {e \in DocsOver(NestVocab, MaxNestLines) : WellNested(e)}}

InitNest == InitOver(NestTexts, {TRUE}, 1)

SpecNest == InitNest /\ [][Next]_vars

\* C1: for a well-formed nesting of if/while/for/foreach/switch blocks, each
\* closed by its own end, checkSyntax emits no 'Unexpected "end"' Error and no
\* 'Unclosed ... block' Error, and the loop counter is 0 after the last line.
C1_WellNestedNoBlockError ==
    WellNested(lines) =>
        /\ SyntaxScanned =>
              /\ inLoop = 0
              /\ \A k \in DiagIndices : diagnostics[k].message # UnexpectedEndMsg
        /\ SyntaxChecked =>
              \A k \in DiagIndices : diagnostics[k].message \notin UnclosedBlockMsgs

\* A loop with a block nested in it has been scanned to its last line.
C1_Witness ==
    /\ SyntaxChecked
    /\ WellNested(lines)
    /\ \E k \in 1..Len(lines) : NestDepth(lines, k) >= 2
    /\ \E k \in 1..Len(lines) : lines[k] \in {"while x do", "for i in 1 to 3 do", "foreach i in xs do"}

(***************************************************************************)
(* C2.  break / continue lines inside and outside loops.                   *)
(***************************************************************************)
LoopOpeners == {"while x do", "for i in 1 to 3 do"}

PlainOpeners == {"if x then", "switch x do"}

\* The lines that hold break or continue, and the keyword they hold; the if
\* block of the last one is opened and closed on the line itself.
LoopExitLines == {"break", "continue", "  if x then break end"}

LoopExitWordOn(l) == IF l = "continue" THEN "continue" ELSE "break"

LoopVocab == LoopOpeners \cup PlainOpeners \cup LoopExitLines \cup {"end"}

\* Ends minus openers among the lines j+1..k of d.
EndSurplus(d, j, k) ==
    Count({m \in (j + 1)..k : d[m] = "end"})
        - Count({m \in (j + 1)..k : d[m] \in LoopOpeners \cup PlainOpeners})

\* The loops opened on a line before line i of d and not closed before it: the
\* block opened on line j is closed by the first later end that is in surplus.
OpenLoopsAt(d, i) ==
    {j \in 1..(i - 1) :
        /\ d[j] \in LoopOpeners
        /\ \A k \in (j + 1)..(i - 1) : EndSurplus(d, j, k) < 1}

LoopExitErrorsOn(i) ==
    {k \in DiagIndices : OnLine(k, i) /\ diagnostics[k].message \in LoopExitMsgs}

InitLoop == InitOver(TextsOver(LoopVocab, MaxLines), {TRUE}, 1)

SpecLoop == InitLoop /\ [][Next]_vars

\* C2: a line holding break or continue gets exactly one Error '"<kw>" can only
\* be used inside loops' when no while/for/foreach block is open at that line,
\* and none when it lies inside a loop opened on an earlier line, at any depth
\* (also inside an if or switch nested in the loop).
C2_LoopExitOnlyInsideLoop ==
    SyntaxChecked =>
        \A i \in 1..Len(lines) :
            lines[i] \in LoopExitLines =>
                IF OpenLoopsAt(lines, i) = {}
                THEN /\ Count(LoopExitErrorsOn(i - 1)) = 1
                     /\ \A k \in LoopExitErrorsOn(i - 1) :
                           /\ diagnostics[k].severity = 1
                           /\ diagnostics[k].message =
                                  "\"" \o LoopExitWordOn(lines[i])
                                      \o "\" can only be used inside loops"
                ELSE LoopExitErrorsOn(i - 1) = {}

\* A break inside an if or switch that is nested in an open loop has been checked.
C2_Witness ==
    /\ SyntaxChecked
    /\ \E i \in 2..Len(lines) :
          /\ lines[i] = "break"
          /\ lines[i - 1] \in PlainOpeners
          /\ OpenLoopsAt(lines, i) # {}
          /\ LoopExitErrorsOn(i - 1) = {}

(***************************************************************************)
(* C3.  Lines after a return / fail.                                       *)
(***************************************************************************)
ReachTerminators == {"  return 1", "fail \"bad\""}

ReachBoundaries == {"end", "else", "default"}

ReachSkipped == {"# note", ""}

ReachVocab == ReachTerminators \cup ReachBoundaries \cup ReachSkipped \cup {"x = 1"}

\* Line j of d follows a terminator line with no boundary line in between (or is
\* itself past one), and is neither blank, comment nor boundary.
ExpectedUnreachable(d, j) ==
    /\ d[j] \notin ReachSkipped \cup ReachBoundaries
    /\ \E i \in 1..(j - 1) :
          /\ d[i] \in ReachTerminators
          /\ \A m \in (i + 1)..(j - 1) : d[m] \notin ReachBoundaries

UnreachableWarningsOn(i) ==
    {k \in DiagIndices :
        /\ OnLine(k, i)
        /\ diagnostics[k].message = "Unreachable code detected"
        /\ diagnostics[k].severity = 2}

InitReach == InitOver(TextsOver(ReachVocab, MaxLines), {TRUE}, 1)

SpecReach == InitReach /\ [][Next]_vars

\* C3: after a line beginning with return or fail, every later non-blank,
\* non-comment line gets one 'Unreachable code detected' Warning until a line
\* beginning with end/else/elseif/case/default; that boundary line gets none and
\* clears the flag, so that the lines after it get none either.
C3_UnreachableUntilBoundary ==
    SyntaxChecked =>
        \A j \in 1..Len(lines) :
            Count(UnreachableWarningsOn(j - 1)) = IF ExpectedUnreachable(lines, j) THEN 1 ELSE 0

\* Two lines after one terminator have both been reported, and a line after a
\* boundary has not.
C3_Witness ==
    /\ SyntaxChecked
    /\ \E j \in 2..Len(lines) :
          /\ UnreachableWarningsOn(j - 1) # {}
          /\ UnreachableWarningsOn(j - 2) # {}

(***************************************************************************)
(* C4.  Lines over the alphabet of the string scanner.                     *)
(***************************************************************************)
StringAlphabet == {"a", "\"", "'", "\\"}

RECURSIVE StringsOver(_, _)
StringsOver(A, n) ==
    IF n = 0 THEN {""}
    ELSE StringsOver(A, n - 1) \cup {s \o c : s \in StringsOver(A, n - 1), c \in A}

\* The forward reading of the line: open is the delimiter of the string being
\* read ("" outside a string), odd tells whether the run of backslashes that
\* ends just before position i has odd length.
RECURSIVE ForwardScan(_, _, _, _)
ForwardScan(s, i, open, odd) ==
    IF i > Len(s) THEN open
    ELSE IF SubSeq(s, i, i) = "\\" THEN ForwardScan(s, i + 1, open, ~odd)
    ELSE IF SubSeq(s, i, i) \in {"\"", "'"} /\ ~odd
    THEN ForwardScan(s, i + 1,
                     IF open = "" THEN SubSeq(s, i, i)
                     ELSE IF open = SubSeq(s, i, i) THEN "" ELSE open,
                     FALSE)
    ELSE ForwardScan(s, i + 1, open, FALSE)

EndsInsideString(s) == ForwardScan(s, 1, "", FALSE) # ""

UnclosedStringErrorsOn(i) ==
    {k \in DiagIndices :
        /\ OnLine(k, i)
        /\ diagnostics[k].message = "Unclosed string literal"
        /\ diagnostics[k].severity = 1}

InitStrings == InitOver(StringsOver(StringAlphabet, MaxChars), {TRUE}, 1)

SpecStrings == InitStrings /\ [][Next]_vars

\* C4: hasBalancedStrings is false exactly when the line, read left to right
\* with ' and " as delimiters that only close a string opened by the same
\* delimiter and with a quote counted only after an even number of consecutive
\* backslashes, ends inside a string; checkSyntax reports 'Unclosed string
\* literal' on exactly those lines.
C4_BalancedStringsForwardScan ==
    \A j \in 1..Len(lines) :
        /\ hasBalancedStrings(lines[j]) = ~EndsInsideString(lines[j])
        /\ (SyntaxChecked /\ lines[j] # "") =>
               Count(UnclosedStringErrorsOn(j - 1)) = IF EndsInsideString(lines[j]) THEN 1 ELSE 0

\* A line whose closing quote follows two backslashes has been checked and
\* found balanced.
C4_Witness ==
    /\ SyntaxChecked
    /\ lines = <<"'\\\\'">>
    /\ hasBalancedStrings(lines[1])
    /\ UnclosedStringErrorsOn(0) = {}

(***************************************************************************)
(* C5.  Typed declarations.                                                *)
(***************************************************************************)
DeclVocab ==
    {"var x: number", "var x: integer", "var s : string", "  var b:boolean",
     "var o: object = {}", "var a: array", "var n: Number", "var u"}

\* The type written on a declaration line of the vocabulary ("" when none is).
DeclaredType(l) ==
    CASE l = "var x: number" -> "number"
      [] l = "var x: integer" -> "integer"
      [] l = "var s : string" -> "string"
      [] l = "  var b:boolean" -> "boolean"
      [] l = "var o: object = {}" -> "object"
      [] l = "var a: array" -> "array"
      [] l = "var n: Number" -> "Number"
      [] OTHER -> ""

KnownTypes == {"number", "string", "boolean", "object", "array"}

UnknownTypeErrorsOn(i) ==
    {k \in DiagIndices :
        /\ OnLine(k, i)
        /\ StartsWith(diagnostics[k].message, "Unknown type \"")}

InitDecl == InitOver(TextsOver(DeclVocab, MaxLines), {TRUE}, 1)

SpecDecl == InitDecl /\ [][Next]_vars

\* C5: a declaration 'var x: <type>' gets one 'Unknown type' Error naming the
\* type exactly when the type is not one of number, string, boolean, object,
\* array; analyze() of the one-line document 'var x: number' returns no
\* diagnostics.
C5_UnknownTypeIffNotTypeKeyword ==
    /\ SyntaxChecked =>
          \A j \in 1..Len(lines) :
              IF DeclaredType(lines[j]) \in KnownTypes \cup {""}
              THEN UnknownTypeErrorsOn(j - 1) = {}
              ELSE /\ Count(UnknownTypeErrorsOn(j - 1)) = 1
                   /\ \A k \in UnknownTypeErrorsOn(j - 1) :
                         /\ diagnostics[k].severity = 1
                         /\ diagnostics[k].message =
                                "Unknown type \"" \o DeclaredType(lines[j])
                                    \o "\". Expected: number, string, boolean, object, or array"
    /\ \A h \in 1..Len(history) :
          (lines = <<"var x: number">> /\ history[h].op = "analyze") =>
              history[h].result = <<>>

\* A line with an unknown type has been reported next to a line with the type
\* array that has not.
C5_Witness ==
    /\ SyntaxChecked
    /\ \E i, j \in 1..Len(lines) :
          /\ lines[i] = "var x: integer" /\ UnknownTypeErrorsOn(i - 1) # {}
          /\ lines[j] = "var a: array" /\ UnknownTypeErrorsOn(j - 1) = {}

(***************************************************************************)
(* C6.  by clauses of for loops.                                           *)
(***************************************************************************)
StepVocab ==
    {"for i in 1 to 9 by 0 do", "for i in 9 to 1 by -1 do", "for i in 1 to 9 by 1 do",
     "for i in 1 to 9 by 0.5 do", "  for i in 1 to 9 by 0.0 do",
     "for i in 1 to 9 by -0.5 do", "end"}

\* The literal of the by clause of a line of the vocabulary, the column of its
\* first character, and whether its value is <= 0.
StepClause(l) ==
    CASE l = "for i in 1 to 9 by 0 do" -> [literal |-> "0", column |-> 19, positive |-> FALSE]
      [] l = "for i in 9 to 1 by -1 do" -> [literal |-> "-1", column |-> 19, positive |-> FALSE]
      [] l = "for i in 1 to 9 by 1 do" -> [literal |-> "1", column |-> 19, positive |-> TRUE]
      [] l = "for i in 1 to 9 by 0.5 do" -> [literal |-> "0.5", column |-> 19, positive |-> TRUE]
      [] l = "  for i in 1 to 9 by 0.0 do" -> [literal |-> "0.0", column |-> 21, positive |-> FALSE]
      [] l = "for i in 1 to 9 by -0.5 do" -> [literal |-> "-0.5", column |-> 19, positive |-> FALSE]
      [] OTHER -> [literal |-> "", column |-> -1, positive |-> TRUE]

StepErrorsOn(i) ==
    {k \in DiagIndices :
        /\ OnLine(k, i)
        /\ diagnostics[k].message = "For loop step must be a positive number"}

InitStep == InitOver(TextsOver(StepVocab, MaxLines), {TRUE}, 1)

SpecStep == InitStep /\ [][Next]_vars

\* C6: a for line whose by clause is a numeric literal <= 0 gets one Error
\* 'For loop step must be a positive number' whose span is exactly the literal;
\* a positive literal gets none.
C6_NonPositiveStepReported ==
    SyntaxChecked =>
        \A j \in 1..Len(lines) :
            IF StepClause(lines[j]).positive
            THEN StepErrorsOn(j - 1) = {}
            ELSE /\ Count(StepErrorsOn(j - 1)) = 1
                 /\ \A k \in StepErrorsOn(j - 1) :
                       /\ diagnostics[k].severity = 1
                       /\ diagnostics[k].range.start =
                              [line |-> j - 1, character |-> StepClause(lines[j]).column]
                       /\ diagnostics[k].range.end =
                              [line |-> j - 1,
                               character |-> StepClause(lines[j]).column
                                                 + Len(StepClause(lines[j]).literal)]
                       /\ Substring(lines[j], diagnostics[k].range.start.character,
                                    diagnostics[k].range.end.character)
                              = StepClause(lines[j]).literal

\* An indented line with the step 0.0 and a line with the step 0.5 have both
\* been checked.
C6_Witness ==
    /\ SyntaxChecked
    /\ \E i, j \in 1..Len(lines) :
          /\ lines[i] = "  for i in 1 to 9 by 0.0 do" /\ StepErrorsOn(i - 1) # {}
          /\ lines[j] = "for i in 1 to 9 by 0.5 do"

(***************************************************************************)
(* C7.  Declarations and property assignments in the symbol list.          *)
(***************************************************************************)
SymbolVocab ==
    {"var total: number", "var total: string", "Data.x = 1", "Data.x = 2",
     "cfg.a.b = total", "# note"}

\* The type written on a declaration line of the vocabulary.
SymbolDeclType(l) == IF l = "var total: number" THEN "number" ELSE "string"

SymbolDeclLines(d) == {j \in 1..Len(d) : d[j] \in {"var total: number", "var total: string"}}

\* The lines of d that assign to the property path p.
AssignLines(d, p) ==
    {j \in 1..Len(d) :
        \/ p = "Data.x" /\ d[j] \in {"Data.x = 1", "Data.x = 2"}
        \/ p = "cfg.a.b" /\ d[j] = "cfg.a.b = total"}

SymbolPaths == {"Data.x", "cfg.a.b"}

SymbolIndices == 1..Len(symbols)

\* The forEach loop of extractSymbols has consumed the last line.
SymbolsExtracted == pc = "extractSymbols" /\ lineIndex = Len(lines)

InitSymbols == InitOver(TextsOver(SymbolVocab, MaxLines), {TRUE}, 1)

SpecSymbols == InitSymbols /\ [][Next]_vars

\* C7: every var declaration line is recorded as a symbol (with its type when
\* one is written), however many declarations of the name there are; a dotted
\* property path is recorded once, at the line of its first assignment, however
\* many later assignments to it there are.
C7_DeclarationsAndFirstAssignments ==
    SymbolsExtracted =>
        /\ \A j \in SymbolDeclLines(lines) :
              Count({k \in SymbolIndices :
                        symbols[k] = Symbol("total", SymbolDeclType(lines[j]), j - 1, 4)}) = 1
        /\ Count({k \in SymbolIndices : symbols[k].name = "total"})
              = Count(SymbolDeclLines(lines))
        /\ \A p \in SymbolPaths :
              IF AssignLines(lines, p) = {}
              THEN \A k \in SymbolIndices : symbols[k].name # p
              ELSE /\ Count({k \in SymbolIndices : symbols[k].name = p}) = 1
                   /\ \A k \in SymbolIndices :
                         symbols[k].name = p =>
                             /\ symbols[k].type = "property"
                             /\ symbols[k].line = MinOf(AssignLines(lines, p)) - 1

\* A declaration of total and two assignments to Data.x have been read.
C7_Witness ==
    /\ SymbolsExtracted
    /\ Count(SymbolDeclLines(lines)) >= 1
    /\ Count(AssignLines(lines, "Data.x")) >= 2
    /\ Len(symbols) = 2

(***************************************************************************)
(* C8.  Calls of library functions and of host functions.                  *)
(***************************************************************************)
CallVocab ==
    {"ToUpper(Data.name)", "FooBar(Data.name)", "Data.y = FooBar(1) + Qux(2)",
     "Data.z = Length(Data.s)", "Data.w = FooBar(1) + FooBar(2)", "# FooBar(1)"}

\* The names called on a line of the vocabulary, one entry per call.
CallsOn(l) ==
    CASE l = "ToUpper(Data.name)" -> <<"ToUpper">>
      [] l = "FooBar(Data.name)" -> <<"FooBar">>
      [] l = "Data.y = FooBar(1) + Qux(2)" -> <<"FooBar", "Qux">>
      [] l = "Data.z = Length(Data.s)" -> <<"Length">>
      [] l = "Data.w = FooBar(1) + FooBar(2)" -> <<"FooBar", "FooBar">>
      [] OTHER -> <<>>

LibraryCalls == {"ToUpper", "Length"}

HostCalls == {"FooBar", "Qux"}

AdvisoriesOn(i, name) ==
    {k \in DiagIndices :
        /\ OnLine(k, i)
        /\ diagnostics[k].severity = 3
        /\ diagnostics[k].message =
               "Referenced function \"" \o name \o "\" will need to be made available at runtime"}

UndefinedWarnings(name) ==
    {k \in DiagIndices : diagnostics[k].message = "Undefined variable \"" \o name \o "\""}

\* The forEach loop of validateSemantics has consumed the last line.
Analyzed == call = "analyze" /\ pc = "validateSemantics" /\ lineIndex = Len(lines)

InitCalls == InitOver(TextsOver(CallVocab, MaxLines), BOOLEAN, 1)

SpecCalls == InitCalls /\ [][Next]_vars

\* C8: with the advisory flag on, a call of a library function gets no
\* Information and no 'Undefined variable' Warning for its name; a call of a
\* capitalised name that is neither a library function nor a keyword gets
\* exactly one Information naming it, per call, and no 'Undefined variable'
\* Warning either.
C8_AdvisoryOnlyForHostCalls ==
    (Analyzed /\ warnOnHostFunctions) =>
        /\ \A j \in 1..Len(lines) :
              /\ \A f \in LibraryCalls : AdvisoriesOn(j - 1, f) = {}
              /\ \A f \in HostCalls :
                    Count(AdvisoriesOn(j - 1, f))
                        = Count({c \in 1..Len(CallsOn(lines[j])) : CallsOn(lines[j])[c] = f})
              /\ Count({k \in DiagIndices : OnLine(k, j - 1) /\ diagnostics[k].severity = 3})
                    = Count({c \in 1..Len(CallsOn(lines[j])) : CallsOn(lines[j])[c] \in HostCalls})
        /\ \A f \in LibraryCalls \cup HostCalls : UndefinedWarnings(f) = {}

\* A library call and a line with two host calls have both been analysed with
\* the flag on.
C8_Witness ==
    /\ Analyzed
    /\ warnOnHostFunctions
    /\ \E i, j \in 1..Len(lines) :
          /\ lines[i] \in {"ToUpper(Data.name)", "Data.z = Length(Data.s)"}
          /\ Len(CallsOn(lines[j])) = 2
          /\ Count({k \in DiagIndices : OnLine(k, j - 1) /\ diagnostics[k].severity = 3}) = 2

(***************************************************************************)
(* C9.  Repeated calls on one analyzer.                                    *)
(***************************************************************************)
RepeatVocab == {"var x: number", "Data.y = x", "FooBar(z)"}

InitRepeat == InitOver(TextsOver(RepeatVocab, MaxRepeatLines), {TRUE}, MaxCalls)

SpecRepeat == InitRepeat /\ [][Next]_vars

\* C9: every call of analyze() on an analyzer returns the same diagnostic
\* sequence, and every call of getSymbols() returns the same symbol sequence,
\* whether made before analyze(), after it, or again: no symbol is appended twice.
C9_RepeatedCallsAgree ==
    \A i, j \in 1..Len(history) :
        history[i].op = history[j].op => history[i].result = history[j].result

\* getSymbols(), analyze(), getSymbols() have returned, with symbols to return.
C9_Witness ==
    /\ Len(history) = 3
    /\ history[1].op = "getSymbols"
    /\ history[2].op = "analyze"
    /\ history[3].op = "getSymbols"
    /\ Len(history[3].result) >= 1
    /\ Len(history[2].result) >= 1

(***************************************************************************)
(* C10.  Texts with either line ending, with and without a final line      *)
(* ending, with unmatched ends and unclosed blocks.                        *)
(***************************************************************************)
RobustVocab == {"end", "if x then", "while x do", "# only", ""}

LineEndings == {"\n", "\r\n"}

RobustTexts ==
    {JoinLines(d, eol) \o last :
        d \in DocsOver(RobustVocab, MaxLines), eol \in LineEndings, last \in {"", "\n", "\r\n"}}

\* The text holds nothing but blank lines and comment lines.
OnlyCommentsAndBlanks == \A j \in 1..Len(lines) : lines[j] \in {"# only", ""}

InitRobust == InitOver(RobustTexts, {TRUE}, 1)

SpecRobust == InitRobust /\ [][Next]_vars

\* C10: analyze() and getSymbols() raise for no text: a call that has been
\* started is at a line of the text or at the end of a pass, from where its next
\* step can be taken, and every call that has returned, returned a value; for an
\* empty or comment-only text analyze() returns an empty list.
C10_NoCallRaises ==
    /\ ~raised
    /\ pc # "idle" =>
          /\ pc \in {"checkSyntax", "extractSymbols", "validateSemantics"}
          /\ lineIndex \in 0..Len(lines)
    /\ \A h \in 1..Len(history) :
          /\ ~history[h].threw
          /\ (history[h].op = "analyze" /\ OnlyCommentsAndBlanks) => history[h].result = <<>>

\* analyze() has returned for a text whose last line opens a block and has no
\* final line ending.
C10_Witness ==
    /\ Len(history) = 1
    /\ history[1].op = "analyze"
    /\ ~history[1].threw
    /\ lines[Len(lines)] \in {"if x then", "while x do"}
    /\ Len(history[1].result) >= 1

(***************************************************************************)
(* C11.  Blocks left open at the end of the document.                      *)
(***************************************************************************)
\* Opener lines and the kind of block each one opens.
UnclosedOpeners == {"if x then", "  while x do", "foreach i in xs do", "switch x do"}

OpenerKind(l) ==
    IF l = "if x then" THEN "if"
    ELSE IF l = "  while x do" THEN "while"
    ELSE IF l = "foreach i in xs do" THEN "foreach"
    ELSE "switch"

UnclosedVocab == UnclosedOpeners \cup {"end", "x = 1"}

\* Ends minus openers among the lines j+1..k of d.
UnclosedSurplus(d, j, k) ==
    Count({m \in (j + 1)..k : d[m] = "end"})
        - Count({m \in (j + 1)..k : d[m] \in UnclosedOpeners})

\* The opener lines of d whose block no later end closes.
StillOpen(d) ==
    {j \in 1..Len(d) :
        /\ d[j] \in UnclosedOpeners
        /\ \A k \in (j + 1)..Len(d) : UnclosedSurplus(d, j, k) < 1}

MaxOf(S) == CHOOSE x \in S : \A y \in S : y <= x

UnclosedBlockErrors == {k \in DiagIndices : diagnostics[k].message \in UnclosedBlockMsgs}

InitUnclosed == InitOver(TextsOver(UnclosedVocab, MaxLines), {TRUE}, 1)

SpecUnclosed == InitUnclosed /\ [][Next]_vars

\* C11: after checkSyntax, when blocks are still open there is exactly one
\* 'Unclosed ... block' Error however many are open; it names the kind of the
\* innermost open block (the top of the stack) and its range is the opening
\* line of that block.  When no block is open there is no such Error.
C11_OneUnclosedErrorForInnermost ==
    SyntaxChecked =>
        /\ Len(blockStack) = Count(StillOpen(lines))
        /\ IF StillOpen(lines) = {}
           THEN UnclosedBlockErrors = {}
           ELSE /\ Count(UnclosedBlockErrors) = 1
                /\ \A k \in UnclosedBlockErrors :
                      /\ diagnostics[k].severity = 1
                      /\ diagnostics[k].message =
                             "Unclosed \"" \o OpenerKind(lines[MaxOf(StillOpen(lines))])
                                 \o "\" block - missing \"end\""
                      /\ diagnostics[k].message =
                             "Unclosed \"" \o blockStack[Len(blockStack)].type
                                 \o "\" block - missing \"end\""
                      /\ diagnostics[k].range.start.line = MaxOf(StillOpen(lines)) - 1
                      /\ diagnostics[k].range.end.line = MaxOf(StillOpen(lines)) - 1
                      /\ diagnostics[k].range.start.character = 0
                      /\ diagnostics[k].range.end.character =
                             Len(lines[MaxOf(StillOpen(lines))])

\* Two blocks of different kinds are open at the end and one Error names the inner one.
C11_Witness ==
    /\ SyntaxChecked
    /\ Count(StillOpen(lines)) >= 2
    /\ blockStack[1].type # blockStack[Len(blockStack)].type
    /\ Count(UnclosedBlockErrors) = 1

(***************************************************************************)
(* C12.  end lines met while no block is open.                             *)
(***************************************************************************)
\* Lines that hold end as a whole word outside strings, and the length of
\* each one without its surrounding white space.
StrayEndLines == {"end", "  end # done"}

StrayEndTrimmedLength(l) == IF l = "end" THEN 3 ELSE 10

StrayOpeners == {"while x do", "if x then"}

\* The last line holds end only inside a string literal and inside a longer name.
StrayVocab == StrayEndLines \cup StrayOpeners \cup {"ends = \"end\""}

\* The blocks open after the first k lines of d, innermost last: an end line
\* closes the innermost one and does nothing when none is open.
RECURSIVE ExpectedStack(_, _)
ExpectedStack(d, k) ==
    IF k = 0 THEN <<>>
    ELSE IF d[k] = "while x do"
         THEN Append(ExpectedStack(d, k - 1), [type |-> "while", line |-> k - 1])
    ELSE IF d[k] = "if x then"
         THEN Append(ExpectedStack(d, k - 1), [type |-> "if", line |-> k - 1])
    ELSE IF d[k] \in StrayEndLines /\ Len(ExpectedStack(d, k - 1)) > 0
         THEN SubSeq(ExpectedStack(d, k - 1), 1, Len(ExpectedStack(d, k - 1)) - 1)
    ELSE ExpectedStack(d, k - 1)

IsStrayEnd(d, i) == d[i] \in StrayEndLines /\ ExpectedStack(d, i - 1) = <<>>

UnexpectedEndErrorsOn(i) ==
    {k \in DiagIndices : OnLine(k, i) /\ diagnostics[k].message = UnexpectedEndMsg}

InitStray == InitOver(TextsOver(StrayVocab, MaxLines), {TRUE}, 1)

SpecStray == InitStray /\ [][Next]_vars

\* C12: while checkSyntax scans, an end line met with no block open gets exactly
\* one 'Unexpected "end"' Error, and every other line gets none; after it the
\* stack is still empty and the loop counter is still 0, and the blocks opened
\* and closed on the following lines are tracked as if the stray end was absent.
C12_StrayEndReportedAndSkipped ==
    (call = "analyze" /\ pc = "checkSyntax") =>
        /\ blockStack = ExpectedStack(lines, lineIndex)
        /\ inLoop = Count({j \in 1..Len(blockStack) : blockStack[j].type = "while"})
        /\ \A i \in 1..lineIndex :
              IF IsStrayEnd(lines, i)
              THEN /\ Count(UnexpectedEndErrorsOn(i - 1)) = 1
                   /\ ExpectedStack(lines, i) = <<>>
                   /\ \A k \in UnexpectedEndErrorsOn(i - 1) :
                         /\ diagnostics[k].severity = 1
                         /\ diagnostics[k].range.start.character = 0
                         /\ diagnostics[k].range.end.line = i - 1
                         /\ diagnostics[k].range.end.character =
                                StrayEndTrimmedLength(lines[i])
              ELSE UnexpectedEndErrorsOn(i - 1) = {}

\* A stray end has been reported and the loop opened after it is on the stack.
C12_Witness ==
    /\ call = "analyze" /\ pc = "checkSyntax"
    /\ lineIndex >= 2
    /\ IsStrayEnd(lines, 1)
    /\ lines[2] = "while x do"
    /\ Count(UnexpectedEndErrorsOn(0)) = 1
    /\ Len(blockStack) >= 1
    /\ inLoop >= 1

(***************************************************************************)
(* C13.  The advisory flag and the Error / Warning diagnostics.            *)
(***************************************************************************)
\* Lines that yield an advisory followed by a Warning of validateSemantics, an
\* Error followed by an advisory on the same line, an Error alone, an Error
\* that makes the following lines unreachable, and nothing.
FlagVocab == {"Tick(y)", "var n: int = Poll()", "end", "return Sleep(0)", "# c"}

IsErrorOrWarning(d) ==
    d.severity \in {DiagnosticSeverity.Error, DiagnosticSeverity.Warning}

ErrorsAndWarnings(ds) == SelectSeq(ds, IsErrorOrWarning)

NoInformation(ds) == \A k \in 1..Len(ds) : ds[k].severity # DiagnosticSeverity.Information

\* off is the list returned with the flag off, on the list returned with it on.
FlagAgreement(off, on) == NoInformation(off) /\ off = ErrorsAndWarnings(on)

InitFlag == InitOver(TextsOver(FlagVocab, MaxLines), BOOLEAN, 1)

SpecFlag == InitFlag /\ [][Next]_vars

\* C13: the list analyze() returns with warnOnHostFunctions off holds no
\* Information diagnostic and equals, element for element, the Errors and
\* Warnings of the list returned for the same text with the flag on.  Each
\* returned list is compared with the list of the opposite flag setting.
C13_FlagOnlyAddsInformation ==
    \A h \in 1..Len(history) :
        history[h].op = "analyze" =>
            IF warnOnHostFunctions
            THEN FlagAgreement(analyze(lines, FALSE), history[h].result)
            ELSE FlagAgreement(history[h].result, analyze(lines, TRUE))

\* With the flag off analyze() has returned Errors and Warnings for a text
\* that, with the flag on, has an advisory between two of them.
C13_Witness ==
    /\ ~warnOnHostFunctions
    /\ Len(history) = 1
    /\ history[1].op = "analyze"
    /\ Len(history[1].result) >= 2
    /\ lines[1] = "var n: int = Poll()"
    /\ Len(lines) >= 2
    /\ lines[2] = "Tick(y)"

(***************************************************************************)
(* C14.  Declared names and the undefined-variable check.                  *)
(***************************************************************************)
\* Lines that declare names by var, as the variable of foreach and of for, as
\* the parameter of a bare lambda and as the parameters of a parenthesised
\* lambda passed to a call, and that use names declared on other lines.
ScopeVocab ==
    {"var total = n + 1", "foreach n in Data.xs do", "for i in 1 to total do",
     "r = Map(Data.xs, k => k + i)", "s = Sort(Data.xs, (a, b) => a)", "end"}

\* The names each line declares.
DeclaredOn(l) ==
    IF l = "var total = n + 1" THEN {"total"}
    ELSE IF l = "foreach n in Data.xs do" THEN {"n"}
    ELSE IF l = "for i in 1 to total do" THEN {"i"}
    ELSE IF l = "r = Map(Data.xs, k => k + i)" THEN {"k"}
    ELSE IF l = "s = Sort(Data.xs, (a, b) => a)" THEN {"a", "b"}
    ELSE {}

DeclaredIn(d) == UNION {DeclaredOn(d[i]) : i \in 1..Len(d)}

UndefinedVariableMsg(name) == "Undefined variable \"" \o name \o "\""

InitScope == InitOver(TextsOver(ScopeVocab, MaxLines), {TRUE}, 1)

SpecScope == InitScope /\ [][Next]_vars

\* C14: no name that some line of the document declares (by var, as the
\* variable of for or foreach, or as a lambda parameter) is the subject of an
\* 'Undefined variable' Warning, on any line.
C14_DeclaredNeverUndefined ==
    \A k \in DiagIndices :
        \A name \in DeclaredIn(lines) :
            diagnostics[k].message # UndefinedVariableMsg(name)

(***************************************************************************)
(* C15.  The order of the returned diagnostics and the published prefix.   *)
(***************************************************************************)
\* Lines that yield an Error of the line scan, an unclosed block (reported
\* after the scan, on the line of its opener) and Warnings of validateSemantics.
OrderVocab == {"while x do", "var a: int", "y = 1", "break", "end"}

\* The pass that produces a diagnostic: 1 the line scan of checkSyntax, 2 its
\* end-of-document check, 3 validateSemantics.
DiscoveryPhase(d) ==
    IF StartsWith(d.message, "Undefined variable") THEN 3
    ELSE IF d.message \in UnclosedBlockMsgs THEN 2
    ELSE 1

InDiscoveryOrder(ds) ==
    /\ \A i \in 1..Len(ds) : \A j \in (i + 1)..Len(ds) :
          /\ DiscoveryPhase(ds[i]) <= DiscoveryPhase(ds[j])
          /\ (DiscoveryPhase(ds[i]) = DiscoveryPhase(ds[j]) /\ DiscoveryPhase(ds[i]) # 2)
                => ds[i].range.start.line <= ds[j].range.start.line
    /\ Count({i \in 1..Len(ds) : DiscoveryPhase(ds[i]) = 2}) <= 1

\* The first min(n, Len(ds)) elements of ds.
FirstN(ds, n) == SubSeq(ds, 1, IF n < Len(ds) THEN n ELSE Len(ds))

InitOrder ==
    /\ \E t \in TextsOver(OrderVocab, MaxLines) : Constructed(t, TRUE)
    /\ maxCalls = 1
    /\ maxNumberOfProblems \in -1..MaxProblems
    /\ handler = "none"
    /\ sent = <<>>
    /\ server = Initialized(TRUE)
    /\ client = Connected
    /\ formatter = FormatIdle
    /\ signatureHelp = SignatureIdle

SpecOrder == InitOrder /\ [][NextServer]_vars

\* C15: the list analyze() returns holds the diagnostics of the line scan in
\* line order, then the unclosed-block Error, then the 'Undefined variable'
\* Warnings in line order; for a maximum N >= 0 the list validateTextDocument
\* sends is the first min(N, total) elements of it, so never more than N.
C15_DiscoveryOrderAndPrefix ==
    /\ \A h \in 1..Len(history) :
          history[h].op = "analyze" => InDiscoveryOrder(history[h].result)
    /\ \A m \in 1..Len(sent) :
          maxNumberOfProblems >= 0 =>
              /\ sent[m] = FirstN(history[Len(history)].result, maxNumberOfProblems)
              /\ Len(sent[m]) <= maxNumberOfProblems

\* A list has been sent that is cut short, and the list it was cut from holds
\* diagnostics of all three passes, the unclosed block lying on an earlier
\* line than the scan diagnostic before it.
C15_Witness ==
    /\ Len(sent) = 1
    /\ maxNumberOfProblems >= 2
    /\ Len(history[1].result) > maxNumberOfProblems
    /\ Len(sent[1]) = maxNumberOfProblems
    /\ \E i \in 1..Len(history[1].result) : \E j \in (i + 1)..Len(history[1].result) :
          /\ DiscoveryPhase(history[1].result[i]) = 1
          /\ DiscoveryPhase(history[1].result[j]) = 2
          /\ history[1].result[j].range.start.line < history[1].result[i].range.start.line
    /\ \E i \in 1..Len(history[1].result) : DiscoveryPhase(history[1].result[i]) = 3

(***************************************************************************)
(* C16.  Sleep calls with a literal argument.                              *)
(***************************************************************************)
SleepVocab ==
    {"Sleep(0)", "  Sleep( -5 )", "Sleep(250)", "Sleep(0.5)", "Log(\"a\") Sleep (0.0)",
     "Sleep(n)", "Sleep(0, 1)", "Sleep(0 - n)"}

\* The argument of the Sleep call of a line of the vocabulary when it is a
\* single numeric literal, the column of its first character, and whether its
\* value is <= 0; the last three lines have no such argument.
SleepArgument(l) ==
    CASE l = "Sleep(0)" -> [literal |-> "0", column |-> 6, flagged |-> TRUE]
      [] l = "  Sleep( -5 )" -> [literal |-> "-5", column |-> 9, flagged |-> TRUE]
      [] l = "Sleep(250)" -> [literal |-> "250", column |-> 6, flagged |-> FALSE]
      [] l = "Sleep(0.5)" -> [literal |-> "0.5", column |-> 6, flagged |-> FALSE]
      [] l = "Log(\"a\") Sleep (0.0)" -> [literal |-> "0.0", column |-> 16, flagged |-> TRUE]
      [] OTHER -> [literal |-> "", column |-> -1, flagged |-> FALSE]

SleepErrorsOn(i) ==
    {k \in DiagIndices :
        /\ OnLine(k, i)
        /\ diagnostics[k].message = "Sleep() requires a positive integer millisecond value"}

InitSleep == InitOver(TextsOver(SleepVocab, MaxLines), {TRUE}, 1)

SpecSleep == InitSleep /\ [][Next]_vars

RECURSIVE MaskForward(_, _, _, _, _, _)
MaskForward(s, i, open, start, odd, out) ==
    IF i > Len(s)
    THEN IF open # "" THEN out \o SubSeq(s, start, Len(s)) ELSE out
    ELSE IF SubSeq(s, i, i) = "\\"
    THEN MaskForward(s, i + 1, open, start, ~odd,
                     IF open = "" THEN out \o "\\" ELSE out)
    ELSE IF SubSeq(s, i, i) \in {"\"", "'"} /\ ~odd
    THEN IF open = "" THEN MaskForward(s, i + 1, SubSeq(s, i, i), i, FALSE, out)
         ELSE IF open = SubSeq(s, i, i)
         THEN MaskForward(s, i + 1, "", start, FALSE, out \o "\"\"")
         ELSE MaskForward(s, i + 1, open, start, FALSE, out)
    ELSE MaskForward(s, i + 1, open, start, FALSE,
                     IF open = "" THEN out \o SubSeq(s, i, i) ELSE out)

ExpectedMask(s) == MaskForward(s, 1, "", 0, FALSE, "")

\* C17: for every line, removeStringLiterals puts "" in place of each complete
\* literal, drops the literal's content, copies the characters outside
\* literals in order, and copies a literal left open at the end of the line
\* from its opening quote on.
C17_MaskKeepsOutsideText ==
    SyntaxScanned =>
        \A i \in 1..Len(lines) : removeStringLiterals(lines[i]) = ExpectedMask(lines[i])

(***************************************************************************)
(* C18.  The loop counter and the block stack.                             *)
(***************************************************************************)
\* Openers of every kind, an elseif line (no block of its own), a loop opened
\* and closed on one line, and end.
CounterVocab ==
    {"while x do", "for i in 1 to 3 do", "foreach i in xs do", "if x then", "switch x do",
     "elseif y then", "while x do x = 1 end", "end"}

LoopKinds == {"while", "for", "foreach"}

LoopEntries(stack) == {j \in 1..Len(stack) : stack[j].type \in LoopKinds}

InitCounter == InitOver(TextsOver(CounterVocab, MaxLines), {TRUE}, 1)

SpecCounter == InitCounter /\ [][Next]_vars

\* C18: whenever checkSyntax has processed a line, the loop counter equals the
\* number of while / for / foreach entries on the block stack; so it is never
\* negative, and it is 0 exactly when the stack holds no loop entry.
C18_LoopCounterCountsLoopEntries ==
    (call = "analyze" /\ pc = "checkSyntax") =>
        /\ inLoop = Count(LoopEntries(blockStack))
        /\ inLoop >= 0
        /\ (inLoop = 0) <=> (LoopEntries(blockStack) = {})

\* A loop nested in an if has been closed while the if is still open: the
\* counter has gone up and come back down.
C18_Witness ==
    /\ call = "analyze" /\ pc = "checkSyntax"
    /\ lineIndex = 3
    /\ lines[1] = "if x then"
    /\ lines[2] = "foreach i in xs do"
    /\ lines[3] = "end"
    /\ inLoop = 0
    /\ Len(blockStack) = 1

(***************************************************************************)
(* C19.  Loops written on one line.                                        *)
(***************************************************************************)
\* Loops whose body, a break or a continue, and whose end are on the line of
\* the opener.
OneLineLoops ==
    {"while x do break end", "for i in 1 to 3 do continue end", "foreach i in xs do break end"}

\* No line of the vocabulary opens a loop that stays open.
OneLineVocab == OneLineLoops \cup {"if x then", "x = 1", "end"}

InitOneLine == InitOver(TextsOver(OneLineVocab, MaxLines), {TRUE}, 1)

SpecOneLine == InitOneLine /\ [][Next]_vars

\* C19: a loop written on one line with break or continue as its body, not
\* enclosed in another loop, gets no '"<kw>" can only be used inside loops'
\* Error: the keyword is inside the loop the line itself opens.
C19_OneLineLoopAcceptsLoopExit ==
    SyntaxChecked =>
        \A i \in 1..Len(lines) :
            lines[i] \in OneLineLoops => LoopExitErrorsOn(i - 1) = {}

(***************************************************************************)
(* C20.  The keyword named by the outside-loop Error.                      *)
(***************************************************************************)
\* Lines outside any loop that hold break, continue, both, and continue next
\* to a name that merely contains the letters of break.
KeywordVocab ==
    {"break", "continue", "if x then break else continue end",
     "if breakNow then continue end", "continue # not break", "breaks = 1"}

\* The keyword each line misuses: break when break is a whole word of the
\* line (comments aside), otherwise continue; "" when the line holds neither.
MisusedKeyword(l) ==
    IF l \in {"break", "if x then break else continue end"} THEN "break"
    ELSE IF l \in {"continue", "if breakNow then continue end", "continue # not break"}
    THEN "continue"
    ELSE ""

InitKeyword == InitOver(TextsOver(KeywordVocab, MaxLines), {TRUE}, 1)

SpecKeyword == InitKeyword /\ [][Next]_vars

\* C20: the Error for a break or continue outside a loop names continue when
\* continue is a whole word of the line and break is not (also when break is
\* part of a longer name on the line), and names break when break is a whole
\* word of the line.
C20_ErrorNamesMisusedKeyword ==
    SyntaxChecked =>
        \A i \in 1..Len(lines) :
            \A k \in LoopExitErrorsOn(i - 1) :
                diagnostics[k].message =
                    "\"" \o MisusedKeyword(lines[i]) \o "\" can only be used inside loops"

(***************************************************************************)
(* C21.  Lines after the block that holds a return / fail.                 *)
(***************************************************************************)
BranchTerminators == {"  return 1"}

BranchBoundaries == {"end", "else"}

BranchPlain == {"Foo()"}

BranchVocab == {"if c then"} \cup BranchTerminators \cup BranchBoundaries \cup BranchPlain

\* Line j of d is a plain line behind a boundary line that closes a region
\* begun by a return, with no further return before it.
AfterClosedRegion(d, j) ==
    /\ d[j] \in BranchPlain
    /\ \E i \in 1..(j - 1) : \E b \in (i + 1)..(j - 1) :
          /\ d[i] \in BranchTerminators
          /\ d[b] \in BranchBoundaries
          /\ \A m \in (b + 1)..(j - 1) : d[m] \notin BranchTerminators

InitBranch == InitOver(TextsOver(BranchVocab, MaxNestLines), {TRUE}, 1)

SpecBranch == InitBranch /\ [][Next]_vars

\* C21 as claimed: the boundary line after a nested return is exempt, and the
\* plain lines that follow the boundary still get the 'Unreachable code
\* detected' Warning.
C21_LinesAfterBoundaryStillFlagged ==
    SyntaxChecked =>
        \A j \in 1..Len(lines) :
            AfterClosedRegion(lines, j) => Count(UnreachableWarningsOn(j - 1)) = 1

\* C21 as amended: the boundary line after a nested return gets no Warning
\* and clears the flag, so the plain lines that follow the boundary get no
\* Warning either, up to the next return or fail.
C21_BoundaryClearsUnreachable ==
    SyntaxChecked =>
        \A j \in 1..Len(lines) :
            /\ lines[j] \in BranchBoundaries => UnreachableWarningsOn(j - 1) = {}
            /\ AfterClosedRegion(lines, j) => UnreachableWarningsOn(j - 1) = {}

\* if c then / return 1 / end / Foo() has been scanned and Foo() is not flagged.
C21_Witness ==
    /\ SyntaxChecked
    /\ lines = <<"if c then", "  return 1", "end", "Foo()">>
    /\ UnreachableWarningsOn(3) = {}
    /\ UnreachableWarningsOn(2) = {}

(***************************************************************************)
(* C22.  A # inside a string literal.                                      *)
(***************************************************************************)
\* Lines with a complete literal holding # that is followed on the line by an
\* end, a host call, a break, a by clause, a Sleep call and a block opener.
HashVocab ==
    {"if c then t = \"#\" end", "t = \"#\" + Fmt(1)", "if t == \"#\" then break end",
     "for i in At(\"#\") to 9 by 0 do", "Log(\"#\") Sleep(0)", "t = \"#\" if c then", "end"}

\* The same line with the letter a in place of the # of the literal.
WithoutHash(l) ==
    CASE l = "if c then t = \"#\" end" -> "if c then t = \"a\" end"
      [] l = "t = \"#\" + Fmt(1)" -> "t = \"a\" + Fmt(1)"
      [] l = "if t == \"#\" then break end" -> "if t == \"a\" then break end"
      [] l = "for i in At(\"#\") to 9 by 0 do" -> "for i in At(\"a\") to 9 by 0 do"
      [] l = "Log(\"#\") Sleep(0)" -> "Log(\"a\") Sleep(0)"
      [] l = "t = \"#\" if c then" -> "t = \"a\" if c then"
      [] OTHER -> l

LinesWithoutHash(d) == [i \in 1..Len(d) |-> WithoutHash(d[i])]

InitHash == InitOver(TextsOver(HashVocab, MaxLines), {TRUE}, 1)

SpecHash == InitHash /\ [][Next]_vars

\* C22: checkSyntax reads a line whose complete string literal holds a # as it
\* reads the line with another character in place of the #: what follows the
\* literal on the line (end, break, a by clause, a Sleep call, a call, a block
\* opener) gives the same diagnostics, at the same positions.
C22_HashInLiteralIsNoComment ==
    (call = "analyze" /\ pc = "extractSymbols") =>
        diagnostics = CheckSyntaxFinish(CheckSyntaxLines(LinesWithoutHash(lines),
                                                         Len(lines), warnOnHostFunctions),
                                        LinesWithoutHash(lines))

(***************************************************************************)
(* C23.  Quote characters in a trailing comment.                           *)
(***************************************************************************)
\* Lines whose code part has balanced quotes; the trailing comments of the
\* first two hold an apostrophe and a double quote.
CommentVocab ==
    {"x = 1 # don't", "s = \"a\" # the \"name", "y = 2 # fine", "t = 'b'", "# it's"}

InitComment == InitOver(TextsOver(CommentVocab, MaxLines), {TRUE}, 1)

SpecComment == InitComment /\ [][Next]_vars

\* C23: a line whose code part has balanced quotes gets no 'Unclosed string
\* literal' Error, whatever quote characters its trailing comment holds.
C23_CommentQuotesIgnored ==
    SyntaxChecked =>
        \A i \in 1..Len(lines) : UnclosedStringErrorsOn(i - 1) = {}

(***************************************************************************)
(* C24.  Keywords inside string literals.                                  *)
(***************************************************************************)
\* Lines whose keywords all lie inside complete literals, a loop opener, a
\* return and an end.
LiteralKeywordLines ==
    {"t = \"end\"", "Log(\"while x do\")", "t = 'break' + \"if\"", "Log(\"end of step #2\")"}

LiteralVocab == LiteralKeywordLines \cup {"while c do", "return 1", "end"}

\* The same line with its literals emptied.
WithEmptyLiterals(l) ==
    CASE l = "t = \"end\"" -> "t = \"\""
      [] l = "Log(\"while x do\")" -> "Log(\"\")"
      [] l = "t = 'break' + \"if\"" -> "t = '' + \"\""
      [] l = "Log(\"end of step #2\")" -> "Log(\"\")"
      [] OTHER -> l

LinesWithEmptyLiterals(d) == [i \in 1..Len(d) |-> WithEmptyLiterals(d[i])]

IsBlockError(d) == d.message \in {UnexpectedEndMsg} \cup LoopExitMsgs

\* The 'Unexpected "end"' and outside-loop Errors of a list, by message and line.
BlockErrors(ds) ==
    {<<ds[k].message, ds[k].range.start.line>> : k \in {j \in 1..Len(ds) : IsBlockError(ds[j])}}

\* st is the state checkSyntax reaches on the lines with emptied literals.
SameBlockState(st) ==
    /\ blockStack = st.blockStack
    /\ inLoop = st.inLoop
    /\ afterTerminator = st.afterTerminator
    /\ BlockErrors(diagnostics) = BlockErrors(st.diagnostics)

InitLiteral == InitOver(TextsOver(LiteralVocab, MaxLines), {TRUE}, 1)

SpecLiteral == InitLiteral /\ [][Next]_vars

\* C24: after every line, the block stack, the loop counter, the
\* after-terminator flag and the 'Unexpected "end"' and outside-loop Errors
\* are those of the document in which every string literal is empty: keywords
\* inside complete literals change none of them.
C24_LiteralKeywordsIgnored ==
    (call = "analyze" /\ pc = "checkSyntax") =>
        SameBlockState(CheckSyntaxLines(LinesWithEmptyLiterals(lines), lineIndex,
                                        warnOnHostFunctions))

(***************************************************************************)
(* C25.  elseif, else, case and default lines.                             *)
(***************************************************************************)
\* The line that opens the chain, and the kind of its block.
ChainOpeners == {"if a then", "switch x do"}

ChainKind(l) == IF l = "if a then" THEN "if" ELSE "switch"

\* The lines that follow it: continuation lines (one elseif holds a loop
\* keyword) and end.
ChainContinuations ==
    {"elseif b then", "elseif b then while c do", "else", "case 1 then", "default"}

ChainVocab == ChainContinuations \cup {"end"}

ChainTexts ==
    {JoinLines(<<o>> \o d, "\n") : o \in ChainOpeners, d \in DocsOver(ChainVocab, MaxLines)}

\* The number of end lines among the first k lines of d.
EndsUpTo(d, k) == Count({j \in 1..k : d[j] = "end"})

InitChain == InitOver(ChainTexts, {TRUE}, 1)

SpecChain == InitChain /\ [][Next]_vars

\* C25: in a chain opened by an if or a switch line, no elseif, else, case or
\* default line changes the block stack or the loop counter: after every line
\* the stack holds the entry of the opener until the first end and is empty
\* after it, the loop counter is 0, and only the ends after the first get
\* 'Unexpected "end"'.  With exactly one end the chain leaves no block Error.
C25_ContinuationsKeepBlockState ==
    /\ (call = "analyze" /\ pc = "checkSyntax" /\ lineIndex >= 1) =>
          /\ inLoop = 0
          /\ blockStack = IF EndsUpTo(lines, lineIndex) = 0
                          THEN <<[type |-> ChainKind(lines[1]), line |-> 0]>>
                          ELSE <<>>
          /\ \A j \in 1..lineIndex :
                Count(UnexpectedEndErrorsOn(j - 1))
                    = IF lines[j] = "end" /\ EndsUpTo(lines, j) >= 2 THEN 1 ELSE 0
    /\ SyntaxChecked =>
          (UnclosedBlockErrors = {}) <=> (EndsUpTo(lines, Len(lines)) >= 1)

\* An if / elseif (holding a loop keyword) / else / end chain has been scanned
\* and carries no block Error.
C25_Witness ==
    /\ SyntaxChecked
    /\ lines = <<"if a then", "elseif b then while c do", "else", "end">>
    /\ blockStack = <<>>
    /\ UnclosedBlockErrors = {}
    /\ UnexpectedEndErrorsOn(3) = {}

(***************************************************************************)
(* C26.  The span of the 'Unknown type' Error.                             *)
(***************************************************************************)
\* Declarations with an unknown type: the type text occurs only after the
\* colon, or also in the name, or in the var keyword itself.
TypeSpanVocab ==
    {"var x: integer", "  var y : int", "var int1: int", "var v: var", "var a: array"}

InitTypeSpan == InitOver(TextsOver(TypeSpanVocab, MaxLines), {TRUE}, 1)

SpecTypeSpan == InitTypeSpan /\ [][Next]_vars

\* The text of line i (0-based) of the document inside the range of diagnostic k.
TextInRange(k) ==
    Substring(lines[diagnostics[k].range.start.line + 1],
              diagnostics[k].range.start.character,
              diagnostics[k].range.end.character)

\* C26: the range of every 'Unknown type' Error starts after the colon of the
\* declaration, has the length of the type, and covers the type token.
C26_UnknownTypeSpanIsTypeToken ==
    SyntaxChecked =>
        \A j \in 1..Len(lines) : \A k \in UnknownTypeErrorsOn(j - 1) :
            /\ diagnostics[k].range.start.character > IndexOf(lines[j], ":")
            /\ diagnostics[k].range.end.character
                   = diagnostics[k].range.start.character
                         + Len(TypeAnnotMatch(Trim(lines[j])).type)
            /\ TextInRange(k) = TypeAnnotMatch(Trim(lines[j])).type

(***************************************************************************)
(* C27.  The position of the host-function advisory.                       *)
(***************************************************************************)
\* Calls of functions that are not in the library: at the start of the line,
\* after leading blanks, after an empty literal and after literals with content.
AdvisoryVocab ==
    {"Foo(1)", "  Bar(x)", "x = \"\" + Foo(1)", "x = \"abc\" + Foo(1)", "t = 'no' + Baz()"}

InformationOn(i) ==
    {k \in DiagIndices :
        OnLine(k, i) /\ diagnostics[k].severity = DiagnosticSeverity.Information}

HostFunctionMsg(name) ==
    "Referenced function \"" \o name \o "\" will need to be made available at runtime"

InitAdvisory == InitOver(TextsOver(AdvisoryVocab, MaxLines), {TRUE}, 1)

SpecAdvisory == InitAdvisory /\ [][Next]_vars

\* C27: the text of the original line inside the range of every Information
\* diagnostic is the function name the diagnostic reports.
C27_AdvisoryRangeCoversFunctionName ==
    SyntaxChecked =>
        \A j \in 1..Len(lines) : \A k \in InformationOn(j - 1) :
            diagnostics[k].message = HostFunctionMsg(TextInRange(k))

(***************************************************************************)
(* C28.  The position of the 'Undefined variable' Warning.                 *)
(***************************************************************************)
\* Uses of undeclared names: at the start of the line, after leading blanks,
\* after an empty literal and after literals with content.
UndefinedVocab ==
    {"var z = 1", "  q = z", "z = \"\" + w", "z = \"abc\" + y", "z = 'hello' + u"}

UndefinedWarningsOn(i) ==
    {k \in DiagIndices :
        /\ OnLine(k, i)
        /\ diagnostics[k].severity = DiagnosticSeverity.Warning
        /\ StartsWith(diagnostics[k].message, "Undefined variable \"")}

InitUndefined == InitOver(TextsOver(UndefinedVocab, MaxLines), {TRUE}, 1)

SpecUndefined == InitUndefined /\ [][Next]_vars

\* C28: the text of the original line inside the range of every 'Undefined
\* variable' Warning is the identifier the Warning reports.
C28_UndefinedRangeCoversIdentifier ==
    (call = "analyze" /\ pc = "validateSemantics") =>
        \A j \in 1..Len(lines) : \A k \in UndefinedWarningsOn(j - 1) :
            diagnostics[k].message = UndefinedVariableMsg(TextInRange(k))

(***************************************************************************)
(* C29.  Which identifier tokens get 'Undefined variable'.                 *)
(***************************************************************************)
TokenVocab ==
    {"var a = 1", "b = a.c + d", "e(1) + f (2)", "g = { h: 1, i :: j }",
     "k = toupper + number", "m = \"n\" + o # p"}

\* The identifier tokens of the masked, comment-stripped line l, with their
\* columns in that line and what the token is: after a '.', before a '(',
\* before a single ':', a library function name in any case, a keyword, a
\* type keyword, or none of these (plain).
Token(name, col, kind) == [name |-> name, col |-> col, kind |-> kind]

TokensOf(l) ==
    CASE l = "var a = 1" -> {Token("var", 0, "keyword"), Token("a", 4, "plain")}
      [] l = "b = a.c + d" ->
             {Token("b", 0, "plain"), Token("a", 4, "plain"), Token("c", 6, "dot"),
              Token("d", 10, "plain")}
      [] l = "e(1) + f (2)" -> {Token("e", 0, "call"), Token("f", 7, "call")}
      [] l = "g = { h: 1, i :: j }" ->
             {Token("g", 0, "plain"), Token("h", 6, "key"), Token("i", 12, "plain"),
              Token("j", 17, "plain")}
      [] l = "k = toupper + number" ->
             {Token("k", 0, "plain"), Token("toupper", 4, "library"),
              Token("number", 14, "type")}
      [] l = "m = \"n\" + o # p" -> {Token("m", 0, "plain"), Token("o", 9, "plain")}
      [] OTHER -> {}

SymbolNames == {symbols[k].name : k \in 1..Len(symbols)}

\* The tokens of l that are to be reported, given the extracted symbols.
UndefinedTokens(l) == {t \in TokensOf(l) : t.kind = "plain" /\ t.name \notin SymbolNames}

InitToken == InitOver(TextsOver(TokenVocab, MaxLines), {TRUE}, 1)

SpecToken == InitToken /\ [][Next]_vars

\* C29: on every line validateSemantics has visited, the 'Undefined variable'
\* Warnings are, one for one, the identifier tokens that are not after a '.',
\* not before a '(', not before a single ':', no library function name in any
\* case, no keyword, no type keyword and no extracted symbol.
C29_UndefinedIffUnexcusedToken ==
    (call = "analyze" /\ pc = "validateSemantics") =>
        \A j \in 1..lineIndex :
            /\ Count(UndefinedWarningsOn(j - 1)) = Count(UndefinedTokens(lines[j]))
            /\ {Token(diagnostics[k].message, diagnostics[k].range.start.character, "plain") :
                    k \in UndefinedWarningsOn(j - 1)}
                 = {Token(UndefinedVariableMsg(t.name), t.col, "plain") :
                        t \in UndefinedTokens(lines[j])}

\* A document that declares a has been validated: b and d are reported, the
\* declared a and the property c are not, and i before '::' is reported while
\* the key h is not.
C29_Witness ==
    /\ Analyzed
    /\ lines = <<"var a = 1", "b = a.c + d", "g = { h: 1, i :: j }">>
    /\ UndefinedWarnings("b") # {} /\ UndefinedWarnings("d") # {}
    /\ UndefinedWarnings("a") = {} /\ UndefinedWarnings("c") = {}
    /\ UndefinedWarnings("i") # {} /\ UndefinedWarnings("h") = {}

(***************************************************************************)
(* C30.  The column of a symbol.                                           *)
(***************************************************************************)
\* One declaration per line: at the start of the line, after leading blanks,
\* and after text in which the name occurs too.
ColumnVocab ==
    {"var x = 1", "  var y = 2", "for i in 1 to 3 do", "  foreach e in xs do",
     "xs.Map(p => p + 1)", "    r = Map(xs, x => 1)", "if i then foreach i in xs do"}

\* The column of the original line at which the declaration begins: the var,
\* for or foreach keyword, or the lambda parameter.
DeclarationStart(l) ==
    CASE l = "var x = 1" -> 0
      [] l = "  var y = 2" -> 2
      [] l = "for i in 1 to 3 do" -> 0
      [] l = "  foreach e in xs do" -> 2
      [] l = "xs.Map(p => p + 1)" -> 7
      [] l = "    r = Map(xs, x => 1)" -> 16
      [] l = "if i then foreach i in xs do" -> 10
      [] OTHER -> 0

InitColumn == InitOver(TextsOver(ColumnVocab, MaxLines), {TRUE}, 1)

SpecColumn == InitColumn /\ [][Next]_vars

\* C30: the column of every var, iterator and lambda-parameter symbol is the
\* first index of the original line, at or after the start of its declaration,
\* at which the name occurs.
C30_SymbolColumnFollowsDeclaration ==
    \A k \in 1..Len(symbols) :
        symbols[k].type # "property" =>
            symbols[k].character
                = IndexOfFrom(lines[symbols[k].line + 1], symbols[k].name,
                              DeclarationStart(lines[symbols[k].line + 1]))

(***************************************************************************)
(* C31.  Bare lambda parameters.                                           *)
(***************************************************************************)
LambdaVocab ==
    {"f(a => 1)", "f(a => 1) + g(a => 2)", "f((a) => 1) + g(a => 2)",
     "f(a => 1) + g(b => 2)"}

\* The number of lambda-param symbols of line l when a bare parameter is
\* skipped only for a parenthesized parameter of the same name on the line.
LambdaParamCount(l) ==
    CASE l = "f(a => 1)" -> 1
      [] l = "f(a => 1) + g(a => 2)" -> 2
      [] l = "f((a) => 1) + g(a => 2)" -> 1
      [] l = "f(a => 1) + g(b => 2)" -> 2
      [] OTHER -> 0

LambdaParamsOn(i) ==
    {k \in SymbolIndices : symbols[k].line = i /\ symbols[k].type = "lambda-param"}

InitLambda == InitOver(TextsOver(LambdaVocab, MaxLines), {TRUE}, 1)

SpecLambda == InitLambda /\ [][Next]_vars

\* C31: every line yields one lambda-param symbol per parenthesized parameter
\* and one per bare lambda whose name no parenthesized lambda of the line has;
\* two bare lambdas with the same name on one line yield two symbols, and the
\* lines of a document are counted independently.
C31_BareLambdaSkippedOnlyAfterParenthesized ==
    SymbolsExtracted =>
        \A j \in 1..Len(lines) : Count(LambdaParamsOn(j - 1)) = LambdaParamCount(lines[j])

(***************************************************************************)
(* C32.  Property symbols and comparisons.                                 *)
(***************************************************************************)
CompareVocab == {"if Data.x == 1 then", "Data.x = 1", "Data.y = Data.x", "end"}

\* The lines of d that assign to the property path p.
AssignmentsTo(d, p) ==
    {j \in 1..Len(d) :
        \/ p = "Data.x" /\ d[j] = "Data.x = 1"
        \/ p = "Data.y" /\ d[j] = "Data.y = Data.x"}

PropertySymbols(p) ==
    {k \in SymbolIndices : symbols[k].name = p /\ symbols[k].type = "property"}

InitCompare == InitOver(TextsOver(CompareVocab, MaxLines), {TRUE}, 1)

SpecCompare == InitCompare /\ [][Next]_vars

\* C32: a dotted path has a property symbol exactly when some line assigns to
\* it, and the symbol is at the first assigning line; a comparison of the path
\* with == yields no symbol and does not count as the first occurrence.
C32_ComparisonIsNoPropertySymbol ==
    SymbolsExtracted =>
        \A p \in {"Data.x", "Data.y"} :
            IF AssignmentsTo(lines, p) = {}
            THEN PropertySymbols(p) = {}
            ELSE /\ Count(PropertySymbols(p)) = 1
                 /\ \A k \in PropertySymbols(p) :
                       symbols[k].line + 1 = MinOf(AssignmentsTo(lines, p))

(***************************************************************************)
(* C33.  Letter case of library function names.                            *)
(***************************************************************************)
\* Calls and bare uses of the library functions ToUpper and Length in several
\* spellings; Data is always declared.
CaseVocab ==
    {"ToUpper(Data)", "TOUPPER(Data)", "Data.y = toupper", "Data.y = TOUPPER",
     "Length(Data)", "LENGTH(Data)"}

CaseSpellings == {"ToUpper", "TOUPPER", "toupper", "Length", "LENGTH"}

InitCase == InitOver(TextsOver(CaseVocab, MaxLines), {TRUE}, 1)

SpecCase == InitCase /\ [][Next]_vars

\* C33: a library function name in any letter case gets no Information as a
\* call and no 'Undefined variable' Warning as an identifier.
C33_LibraryLookupIgnoresCase ==
    (call = "analyze" /\ SyntaxChecked) =>
        /\ \A j \in 1..Len(lines) : InformationOn(j - 1) = {}
        /\ \A f \in CaseSpellings : UndefinedWarnings(f) = {}

(***************************************************************************)
(* C34, C35.  Publications of concurrent validations.                      *)
(***************************************************************************)
InitSession ==
    /\ Constructed("", TRUE)
    /\ maxCalls = 0
    /\ maxNumberOfProblems = defaultSettings.maxNumberOfProblems
    /\ handler = "none"
    /\ sent = <<>>
    /\ \E cap \in BOOLEAN : server = Initialized(cap)
    /\ client = Connected
    /\ formatter = FormatIdle
    /\ signatureHelp = SignatureIdle

SpecSession == InitSession /\ [][NextSession]_vars

\* Some call of validateTextDocument is still awaiting its settings.
ValidationPending == \E id \in 1..Len(server.requests) : ~server.requests[id].resolved

LastPublished == server.published[Len(server.published)]

\* C34: when the document has been opened and no validation is pending, the
\* last diagnostics published were computed from the current text of the
\* document, whatever the order of the edits, the configuration changes and
\* the answers to the settings requests.
C34_LastPublicationIsOfLatestText ==
    (server.version > 0 /\ ~ValidationPending) =>
        /\ Len(server.published) > 0
        /\ LastPublished.text = server.version

\* A validation called for the first text was still awaiting its settings when
\* the second edit arrived: both publications are of the second text.
C34_Witness ==
    /\ server.hasConfigurationCapability
    /\ ~ValidationPending
    /\ server.version = 2
    /\ Len(server.published) >= 2
    /\ server.published[1].text = 2

\* C35: when a configuration change has been handled, the document is open and
\* no validation is pending, the last diagnostics published were computed with
\* settings no older than that change.
C35_LastPublicationUsesNewSettings ==
    (server.changed > 0 /\ server.version > 0 /\ ~ValidationPending) =>
        /\ Len(server.published) > 0
        /\ LastPublished.settings >= server.changed

(***************************************************************************)
(* C36.  The indentation of end lines in the formatter's output.           *)
(***************************************************************************)
FormatOpeners == {"if a>=1 then", "while b do", "switch x do"}

FormatVocab == FormatOpeners \cup {"case 1 then", "y=1", "end"}

\* The number of blocks open before line k of d.
OpenBefore(d, k) ==
    Cardinality({j \in 1..(k - 1) : d[j] \in FormatOpeners})
        - Cardinality({j \in 1..(k - 1) : d[j] = "end"})

\* The line that opened the innermost block around line k, 0 when there is none.
Encloser(d, k) ==
    LET above == {j \in 1..(k - 1) :
                     d[j] \in FormatOpeners /\ OpenBefore(d, j) = OpenBefore(d, k) - 1}
    IN IF above = {} THEN 0 ELSE MaxOf(above)

\* One construct per line, every end closes a block, every block is closed,
\* and case lines stand directly inside a switch.
ProperlyNested(d) ==
    /\ \A k \in 1..Len(d) :
          /\ d[k] = "end" => OpenBefore(d, k) >= 1
          /\ d[k] = "case 1 then" =>
                (Encloser(d, k) > 0 /\ d[Encloser(d, k)] = "switch x do")
    /\ OpenBefore(d, Len(d) + 1) = 0

FormatTexts ==
    {JoinLines(d, "\n") : d \in {e \in DocsOver(FormatVocab, MaxFormatLines) : ProperlyNested(e)}}

InitFormat ==
    /\ Constructed("", TRUE)
    /\ maxCalls = 0
    /\ maxNumberOfProblems = defaultSettings.maxNumberOfProblems
    /\ handler = "none"
    /\ sent = <<>>
    /\ server = Initialized(TRUE)
    /\ client = Connected
    /\ signatureHelp = SignatureIdle
    /\ \E t \in FormatTexts : \E insertSpaces \in BOOLEAN :
          formatter = FormatCall(t, 2, insertSpaces)

SpecFormat == InitFormat /\ [][NextFormat]_vars

\* The number of white-space characters at the start of s.
Indentation(s) == SkipSpaces(s, 0)

\* C36: in the formatted document every end line is indented exactly as much
\* as the line that opened the block it closes.
C36_EndAlignedWithOpener ==
    formatter.returned =>
        /\ Len(formatter.formattedLines) = Len(formatter.lines)
        /\ \A k \in 1..Len(formatter.lines) :
              formatter.lines[k] = "end" =>
                  Indentation(formatter.formattedLines[k])
                      = Indentation(formatter.formattedLines[Encloser(formatter.lines, k)])

(***************************************************************************)
(* C37.  The active parameter of signature help.                           *)
(***************************************************************************)
\* Calls of library functions with no, one and three parameters, a nested
\* call, and a call of a function that is not in the library.
SignatureTexts ==
    {"Now()", "x = Today()", "NewGuid()", "ToUpper(s)", "Replace(a, b, c)",
     "Max(Min(1, 2), 3)", "Clamp(x, 0,", "toupper (s)", "Foo(1)"}

InitSignature ==
    /\ Constructed("", TRUE)
    /\ maxCalls = 0
    /\ maxNumberOfProblems = defaultSettings.maxNumberOfProblems
    /\ handler = "none"
    /\ sent = <<>>
    /\ server = Initialized(TRUE)
    /\ client = Connected
    /\ formatter = FormatIdle
    /\ \E t \in SignatureTexts : \E offset \in 0..MaxOffset :
          /\ offset <= Len(t)
          /\ signatureHelp = SignatureRequest(t, offset)

SpecSignature == InitSignature /\ [][NextSignature]_vars

\* C37: every signature help result has an active parameter that is not
\* below 0.
C37_ActiveParameterNotNegative ==
    (signatureHelp.returned /\ ~signatureHelp.result.isNull) =>
        signatureHelp.result.activeParameter >= 0

(***************************************************************************)
(* C38.  The span of a symbol.                                             *)
(***************************************************************************)
\* Declarations of every kind, most of them after leading blanks.
SpanVocab ==
    {"  var y = 2", "  foreach e in xs do", "for i in 1 to 3 do", "    r = Map(xs, x => 1)",
     "  Data.x = Data.y", "f((a, b) => a)"}

InitSpan == InitOver(TextsOver(SpanVocab, MaxLines), {TRUE}, 1)

SpecSpan == InitSpan /\ [][Next]_vars

\* C38: the character of every symbol is a column of its line, and the text
\* of the line from there, of the length of the name, is the name: the range
\* onDefinition builds from the symbol covers an occurrence of the name.
C38_SymbolSpanIsItsName ==
    \A k \in 1..Len(symbols) :
        /\ symbols[k].character >= 0
        /\ symbols[k].character + Len(symbols[k].name) <= Len(lines[symbols[k].line + 1])
        /\ Substring(lines[symbols[k].line + 1], symbols[k].character,
                     symbols[k].character + Len(symbols[k].name)) = symbols[k].name

\* The symbols of an indented foreach line, an indented lambda line and an
\* indented property assignment have been extracted.
C38_Witness ==
    /\ SymbolsExtracted
    /\ lines = <<"  foreach e in xs do", "    r = Map(xs, x => 1)", "  Data.x = Data.y">>
    /\ \E k \in 1..Len(symbols) : symbols[k].name = "e" /\ symbols[k].character = 5
    /\ \E k \in 1..Len(symbols) : symbols[k].name = "x" /\ symbols[k].line = 1
    /\ \E k \in 1..Len(symbols) : symbols[k].name = "Data.x" /\ symbols[k].character = 2

====
